---- MODULE Spec2Model ----
(***************************************************************************)
(* A model of the step-execution pipeline of the browser operator:         *)
(* OperatorRunnerService.run_operator_case and _execute_single_step        *)
(* (app/services/operator_runner.py) running against PlaywrightManager     *)
(* (app/infrastructure/playwright_manager.py) and PlaywrightGenerator /    *)
(* NLToGherkinGenerator (app/infrastructure/ai_generators.py), and of the  *)
(* functions of HTMLSummarizer (app/infrastructure/html_summarizer.py),    *)
(* generate_steps and execute_step applied on their own to bounded inputs. *)
(*                                                                         *)
(* The environment is what the program cannot decide: the answers of the   *)
(* AI client, whether a Playwright call raises, whether a directory can be *)
(* created. Every such answer is drawn with \E in the action that makes    *)
(* the call.                                                                *)
(***************************************************************************)
EXTENDS Integers, Sequences, FiniteSets, TLC

\* ---------------------------------------------------------------- bounds
\* longest list of structured steps the translator returns
MaxSteps == 2
\* longest list of commands in one precision tier
MaxCmds == 2
\* how far the clock advances during two concurrent invocations
MaxTicks == 2
\* most screenshots one of two concurrent cases takes
MaxShots == 1

\* ------------------------------------------------------------- constants
max_retries == 3

\* Python's None, for the optional string fields
None == "<None>"

SeqsUpTo(S, n) == UNION {[1..k -> S] : k \in 0..n}

\* --------------------------------------------------------------- inputs
\* url argument of run_operator_case; the second one has no http(s) scheme
Urls == {"https://example.test/login", "example.test/login"}

\* goto\(['\"](https?://[^'\"]+)['\"]  : the navigation call shape
HttpUrls == {"https://example.test/login"}

\* StructuredStep.gherkin texts; "<int 5>" stands for a JSON number, which
\* GherkinStep.__post_init__ accepts (it only tests truthiness)
AmOnText == "Given I am on the login page"
OtherText == "When I open the settings page"
NonStrText == "<int 5>"

GherkinSteps ==
    { [gherkin |-> AmOnText,   action |-> "navigate"],
      [gherkin |-> OtherText,  action |-> "navigate"],
      [gherkin |-> AmOnText,   action |-> "verify"],
      [gherkin |-> NonStrText, action |-> "navigate"] }

\* natural_language_steps argument of run_operator_case: the text as its
\* lines (what split('\n') yields), each line a sequence of pieces where
\* " " is a run of whitespace
NaturalLanguageInputs ==
    { << <<"Go to the login page">>, <<>>, <<" ", "Open the settings page", " ">> >> }

\* commands the instruction generator may rank
HighCmds == {"click('#login')", "click('#submit')"}
LowCmds == {"click('text=Login')", "eval('x')"}

\* _is_instruction_allowed on the commands above
IsInstructionAllowed(instruction) == instruction # "eval('x')"

\* what the live page does during one execute_step call
PageBehaviours == [call_raises : BOOLEAN, shot_raises : BOOLEAN, error_shot_raises : BOOLEAN]

\* ------------------------------------------------------------ exceptions
Exc(type, msg) == [type |-> type, msg |-> msg]
NoExc == Exc("none", "")

\* ------------------------------------------------- PlaywrightManager
ExecutionResult(success, screenshot_path, error_message) ==
    [success |-> success, screenshot_path |-> screenshot_path, error_message |-> error_message]

\* execute_step: BrowserException without a page; a security failure without
\* evaluation for a disallowed command; otherwise the call, then the
\* screenshot, and on any exception the "error" screenshot
\* (evaluated: page.goto or eval was reached)
\* mutant: the allow-list test is left out
ExecuteStep_NoGate(page, allowed, b) ==
    IF ~page
    THEN [raised |-> Exc("BrowserException", "Browser not initialized"),
          result |-> ExecutionResult(FALSE, None, None),
          evaluated |-> FALSE]
    ELSE IF b.call_raises \/ b.shot_raises
    THEN [raised |-> NoExc,
          result |-> ExecutionResult(FALSE,
                        IF b.error_shot_raises THEN None ELSE "error.png",
                        IF b.call_raises THEN "Timeout exceeded"
                        ELSE "Failed to take screenshot"),
          evaluated |-> TRUE]
    ELSE [raised |-> NoExc,
          result |-> ExecutionResult(TRUE, "step.png", None),
          evaluated |-> TRUE]

\* mutant: the test of self._page sits inside the try block
ExecuteStep_GuardInsideTry(page, allowed, b) ==
    IF ~page
    THEN [raised |-> NoExc,
          result |-> ExecutionResult(FALSE, None, "Browser not initialized"),
          evaluated |-> FALSE]
    ELSE IF ~allowed
    THEN [raised |-> NoExc,
          result |-> ExecutionResult(FALSE, None, "Instruction not allowed"),
          evaluated |-> FALSE]
    ELSE IF b.call_raises \/ b.shot_raises
    THEN [raised |-> NoExc,
          result |-> ExecutionResult(FALSE,
                        IF b.error_shot_raises THEN None ELSE "error.png",
                        IF b.call_raises THEN "Timeout exceeded"
                        ELSE "Failed to take screenshot"),
          evaluated |-> TRUE]
    ELSE [raised |-> NoExc,
          result |-> ExecutionResult(TRUE, "step.png", None),
          evaluated |-> TRUE]

ExecuteStep(page, allowed, b) ==
    IF ~page
    THEN [raised |-> Exc("BrowserException", "Browser not initialized"),
          result |-> ExecutionResult(FALSE, None, None),
          evaluated |-> FALSE]
    ELSE IF ~allowed
    THEN [raised |-> NoExc,
          result |-> ExecutionResult(FALSE, None, "Instruction not allowed"),
          evaluated |-> FALSE]
    ELSE IF b.call_raises
    THEN [raised |-> NoExc,
          result |-> ExecutionResult(FALSE,
                        IF b.error_shot_raises THEN None ELSE "error.png",
                        "Timeout exceeded"),
          evaluated |-> TRUE]
    ELSE IF b.shot_raises
    THEN [raised |-> NoExc,
          result |-> ExecutionResult(FALSE,
                        IF b.error_shot_raises THEN None ELSE "error.png",
                        "Failed to take screenshot"),
          evaluated |-> TRUE]
    ELSE [raised |-> NoExc,
          result |-> ExecutionResult(TRUE, "step.png", None),
          evaluated |-> TRUE]

\* ---- execute_step on the text of an instruction (lines 262-327). The text
\* is given as its pieces, cut wherever the code looks into the text: every
\* occurrence of "await ", "page.", "goto", "'" and '"' is a piece of its own.
\* A piece that is code comes with what evaluating it needs: attr, the
\* attribute of the page it starts with; names, the names it reads that are
\* not attributes; awaitable, whether its value can be awaited.
Piece(text, attr, names, awaitable) ==
    [text |-> text, attr |-> attr, names |-> names, awaitable |-> awaitable]

\* text that reads no name
Lit(text) == Piece(text, None, {}, FALSE)

Await == Lit("await ")
PagePrefix == Lit("page.")
Quote == Lit("'")
DoubleQuote == Lit("\"")
Goto == Piece("goto", "goto", {}, FALSE)

\* the closing parenthesis of a call of the page, whose value is awaited
Close == Piece(")", None, {}, TRUE)

\* a string literal in single quotes
Str(s) == <<Quote, Lit(s), Quote>>

Click == <<Piece("click(", "click", {}, FALSE)>> \o Str("#login") \o <<Close>>

InstructionTexts ==
    { <<PagePrefix>> \o Click,
      <<Await, PagePrefix>> \o Click,
      Click \o <<Piece(" and __import__(", None, {"__import__"}, FALSE)>> \o Str("os")
            \o <<Lit(").system(")>> \o Str("id") \o <<Lit(")")>>,
      Click \o <<Lit(" and "), PagePrefix, Piece("fill(", None, {"fill"}, FALSE)>> \o Str("#q")
            \o <<Lit(", ")>> \o Str("x") \o <<Close>>,
      <<Piece("eval(", "eval", {}, FALSE)>> \o Str("x") \o <<Lit(")")>>,
      <<Piece("expect(locator(", "expect", {"locator"}, FALSE)>> \o Str("#msg")
            \o <<Lit(")).to_be_visible("), Close>>,
      <<Piece("expect(", "expect", {}, FALSE), PagePrefix, Piece("locator(", None, {"locator"}, FALSE)>>
            \o Str("#msg") \o <<Lit(")).to_be_visible("), Close>>,
      <<Piece("keyboard.press(", "keyboard", {}, FALSE)>> \o Str("Enter") \o <<Close>>,
      <<Piece("locator(", "locator", {}, FALSE)>> \o Str("#a")
            \o <<Piece(" + str(__import__(", None, {"str", "__import__"}, FALSE)>> \o Str("os")
            \o <<Lit(").getpid()) + "), Quote, Quote, Lit(").click("), Close>>,
      <<PagePrefix, Piece("wait_for_load_state(", "wait_for_load_state", {}, FALSE)>>
            \o Str("networkidle") \o <<Lit(", timeout=5000"), Close>>,
      <<Piece("url(", "url", {}, FALSE), Lit(")")>>,
      <<Goto, Lit("(")>> \o Str("https://example.test/login") \o <<Lit(", { wait_until: ")>>
            \o Str("load") \o <<Lit(", timeout: 30000 }"), Close>>,
      <<Piece("click(", "click", {}, FALSE), Quote, Lit("#"), Lit("goto"), Lit("-cart"), Quote, Close>>,
      <<Goto, Lit("("), Quote, Lit("https://example.test/home"), PagePrefix, Lit("html"), Quote, Close>>,
      <<Goto, Lit("("), DoubleQuote, Lit("https://example.test/login"), DoubleQuote, Close>>,
      <<Piece("click(", "click", {}, FALSE), Quote, Lit("text=Please "), Await, Lit("approval"),
        Quote, Close>> }

\* the text of the pieces
RECURSIVE TextOf(_)
TextOf(pieces) == IF pieces = <<>> THEN "" ELSE Head(pieces).text \o TextOf(Tail(pieces))

\* instruction.replace('await ', '').replace('page.', '')
Clean(instruction) == SelectSeq(instruction, LAMBDA piece : piece.text \notin {"await ", "page."})

\* the texts that one of the patterns of ALLOWED_ACTIONS fits from their first
\* to their last character (lines 71-123)
AllowedActions ==
    { "click('#login')",
      "expect(locator('#msg')).to_be_visible()",
      "keyboard.press('Enter')",
      "locator('#a' + str(__import__('os').getpid()) + '').click()",
      "wait_for_load_state('networkidle', timeout=5000)",
      "url()",
      "goto('https://example.test/login'",
      "click('#goto-cart')",
      "goto('https://example.test/homehtml'",
      "goto(\"https://example.test/login\"",
      "click('text=Please approval')" }

\* pattern.match(clean_instruction) is not None, for a pattern: the pattern
\* fits a beginning of the text; what follows is not looked at
PatternMatches(text_pieces) ==
    \E n \in 1..Len(text_pieces) : TextOf(SubSeq(text_pieces, 1, n)) \in AllowedActions

\* PlaywrightManager._is_instruction_allowed
IsInstructionTextAllowed(instruction) == PatternMatches(Clean(instruction))

\* attributes of a Playwright Page among those the instructions name
PageAttributes ==
    {"goto", "click", "dblclick", "locator", "fill", "type", "press", "check", "uncheck",
     "select_option", "hover", "focus", "wait_for_selector", "wait_for_load_state",
     "keyboard", "url", "expect_event"}

\* the globals of eval(source, {"page": self._page}): eval adds __builtins__
\* to a globals dictionary that has none
EvalGlobals == {"page", "__builtins__"}

\* names found through __builtins__
Builtins == {"__import__", "str", "eval", "open"}

\* eval(f"page.{clean_instruction}", {"page": self._page}) and the await of
\* its value (line 308)
Eval(clean_instruction) ==
    LET names == UNION { clean_instruction[i].names : i \in 1..Len(clean_instruction) } IN
    IF Head(clean_instruction).attr \notin PageAttributes
    THEN [outcome |-> "AttributeError", reached |-> {}]
    ELSE IF \E name \in names : name \notin EvalGlobals \cup Builtins
    THEN [outcome |-> "NameError", reached |-> {}]
    ELSE IF ~clean_instruction[Len(clean_instruction)].awaitable
    THEN [outcome |-> "TypeError", reached |-> names \cap Builtins]
    ELSE [outcome |-> "ok", reached |-> names \cap Builtins]

\* what the page does after page.goto returned (lines 277-290)
NavigationBehaviours == [wait_raises : BOOLEAN, current_url : {"", "about:blank", "https://example.test/login"}]

\* lines 276-293: the exception of the readiness block, which is logged
Readiness(nav) ==
    IF nav.wait_raises THEN Exc("TimeoutError", "Timeout 5000ms exceeded")
    ELSE IF nav.current_url = "" \/ nav.current_url = "about:blank"
    THEN Exc("ElementNotFoundException", "Page did not load properly")
    ELSE NoExc

\* "goto" in clean_instruction (line 272)
HasGoto(clean_instruction) ==
    \E i \in 1..Len(clean_instruction) : clean_instruction[i].text = "goto"

\* text.split(sep), the parts as pieces
RECURSIVE Split(_, _)
Split(pieces, sep) ==
    IF \A i \in 1..Len(pieces) : pieces[i].text # sep
    THEN <<pieces>>
    ELSE LET i == CHOOSE j \in 1..Len(pieces) :
                      /\ pieces[j].text = sep
                      /\ \A h \in 1..(j - 1) : pieces[h].text # sep
         IN <<SubSeq(pieces, 1, i - 1)>> \o Split(SubSeq(pieces, i + 1, Len(pieces)), sep)

\* the first string literal of a text, without its quotes
FirstString(pieces) ==
    IF \A i \in 1..Len(pieces) : pieces[i].text \notin {"'", "\""}
    THEN None
    ELSE LET i == CHOOSE j \in 1..Len(pieces) :
                      /\ pieces[j].text \in {"'", "\""}
                      /\ \A h \in 1..(j - 1) : pieces[h].text \notin {"'", "\""}
             e == CHOOSE j \in (i + 1)..Len(pieces) :
                      /\ pieces[j].text = pieces[i].text
                      /\ \A h \in (i + 1)..(j - 1) : pieces[h].text # pieces[i].text
         IN TextOf(SubSeq(pieces, i + 1, e - 1))

\* BrowserConfig, its fields headless and timeout (lines 25-33)
BrowserConfig(headless, timeout) == [headless |-> headless, timeout |-> timeout]

\* timeout: int = 30000
DefaultTimeout == 30000

\* the timeouts written into execute_step (lines 274, 279, 313)
GotoTimeout == 30000
NetworkIdleTimeout == 5000
PostActionTimeout == 5000

\* the configurations a runner is built with
BrowserConfigs == { BrowserConfig(TRUE, timeout) : timeout \in {DefaultTimeout, 60000} }

\* the headless argument of run_operator_case: None (no element) or a value
HeadlessArgs == { <<>>, <<FALSE>> }

\* _initialize_browser: the configuration the manager is created with
\* (operator_runner.py lines 94-106)
EffectiveConfig(browser_config, headless) ==
    IF headless = <<>> THEN browser_config
    ELSE BrowserConfig(headless[1], browser_config.timeout)

\* a wait on the browser and the timeout it runs with
Wait(name, timeout) == [wait |-> name, timeout |-> timeout]

\* any(action in clean_instruction for action in ['click', 'type', 'press',
\* 'fill']) (line 311): the pieces of the texts below in which one of the
\* four words occurs
MentionsAction(clean_instruction) ==
    \E i \in 1..Len(clean_instruction) :
      clean_instruction[i].text \in {"click(", "fill(", "keyboard.press(", ").click("}

\* PlaywrightManager.execute_step on the text of an instruction
\* (goto_url: the argument of page.goto; argument: the first string argument
\* of the call made, page.goto(url, ...) or the text given to eval; waits:
\* page.goto and the wait_for_load_state calls made, each with its timeout,
\* the one of the page, set by _configure_page (line 186), where none is
\* passed; no url of the texts below has "google.com" in it)
ExecuteInstruction(page, instruction, b, nav, config) ==
    LET clean_instruction == Clean(instruction)
        allowed == IsInstructionTextAllowed(clean_instruction)
        branch == IF HasGoto(clean_instruction) THEN "goto"
                  ELSE IF TextOf(clean_instruction) = "url()" THEN "url"
                  ELSE "eval"
        parts == Split(clean_instruction, "'")
        index_error == branch = "goto" /\ Len(parts) < 2
        evaluation == Eval(clean_instruction)
        call_raises == CASE branch = "goto" -> index_error \/ b.call_raises
                         [] branch = "url" -> FALSE
                         [] branch = "eval" -> b.call_raises \/ evaluation.outcome # "ok"
        r == ExecuteStep(page, allowed, [b EXCEPT !.call_raises = call_raises])
    IN [raised |-> r.raised,
        result |-> IF r.evaluated /\ index_error
                   THEN [r.result EXCEPT !.error_message = "list index out of range"]
                   ELSE IF r.evaluated /\ branch = "eval" /\ evaluation.outcome # "ok"
                   THEN [r.result EXCEPT !.error_message = evaluation.outcome]
                   ELSE r.result,
        evaluated |-> r.evaluated /\ ~index_error,
        branch |-> IF r.evaluated THEN branch ELSE "none",
        outcome |-> IF r.evaluated /\ branch = "eval" THEN evaluation.outcome ELSE "none",
        reached |-> IF r.evaluated /\ branch = "eval" THEN evaluation.reached ELSE {},
        logged |-> IF r.evaluated /\ branch = "goto" /\ ~call_raises THEN Readiness(nav) ELSE NoExc,
        goto_url |-> IF r.evaluated /\ branch = "goto" /\ ~index_error
                     THEN TextOf(parts[2]) ELSE None,
        argument |-> IF r.evaluated /\ branch = "goto" /\ ~index_error
                     THEN TextOf(parts[2])
                     ELSE IF r.evaluated /\ branch = "eval"
                     THEN FirstString(clean_instruction) ELSE None,
        waits |-> IF ~r.evaluated \/ index_error THEN <<>>
                  ELSE IF branch = "goto"
                  THEN <<Wait("goto", GotoTimeout)>>
                       \o (IF call_raises THEN <<>>
                           ELSE <<Wait("networkidle", NetworkIdleTimeout)>>
                                \o (IF nav.wait_raises THEN <<>>
                                    ELSE <<Wait("domcontentloaded", config.timeout)>>))
                  ELSE IF branch = "eval" /\ ~call_raises /\ MentionsAction(clean_instruction)
                  THEN <<Wait("networkidle", PostActionTimeout)>>
                  ELSE <<>>]

\* get_page_content: BrowserException without a page, and around a failure
\* of page.content()
GetPageContent(page, content) ==
    IF ~page
    THEN [raised |-> Exc("BrowserException", "Browser not initialized"), value |-> None]
    ELSE IF content = "raises"
    THEN [raised |-> Exc("BrowserException", "Failed to get page content: Target closed"),
          value |-> None]
    ELSE [raised |-> NoExc, value |-> content]

\* the manager's _playwright, _browser, _page, and the _context attribute
\* that start() adds (TRUE: not None)
Handles(playwright, browser, page, context) ==
    [playwright |-> playwright, browser |-> browser, page |-> page, context |-> context]

\* PlaywrightManager.stop: close the browser and playwright (a failure is
\* logged), then the finally clause nulls _browser, _playwright and _page
Stop(h) == [h EXCEPT !.browser = FALSE, !.playwright = FALSE, !.page = FALSE]

\* the awaits of start() in order, the last one for a manager that has a
\* start_url; "none": none of them fails
StartStages == <<"playwright", "launch", "new_page", "new_context", "configure", "navigate">>

\* the driver and the browser that start() has running once the stages
\* before fails_at are over (lines 157-160)
Started(open, fails_at) ==
    open \cup (IF fails_at # "playwright" THEN {"playwright"} ELSE {})
         \cup (IF fails_at \notin {"playwright", "launch"} THEN {"browser"} ELSE {})

\* what stop() leaves running: browser.close() and playwright.stop() are
\* called for the handles that are set, in one try block, so that the first
\* call that raises ends the block (lines 190-196)
StillOpen(h, open, close_raises) ==
    IF close_raises /\ (h.browser \/ h.playwright)
    THEN open
    ELSE open \ ( (IF h.browser THEN {"browser"} ELSE {})
                  \cup (IF h.playwright THEN {"playwright"} ELSE {}) )

StageIndex(stage) ==
    IF stage = "none" THEN Len(StartStages) + 1
    ELSE CHOOSE i \in 1..Len(StartStages) : StartStages[i] = stage

\* PlaywrightManager.start: each handle is assigned when its await returns;
\* on a failure start() calls self.stop() and raises BrowserException
Start(h, fails_at) ==
    LET n == StageIndex(fails_at)
        set == [playwright |-> IF n > 1 THEN TRUE ELSE h.playwright,
                browser |-> IF n > 2 THEN TRUE ELSE h.browser,
                page |-> IF n > 3 THEN TRUE ELSE h.page,
                context |-> IF n > 4 THEN TRUE ELSE h.context]
    IN IF fails_at = "none"
       THEN [raised |-> NoExc, handles |-> set, set |-> set]
       ELSE [raised |-> Exc("BrowserException", "Browser startup failed: " \o fails_at),
             handles |-> Stop(set), set |-> set]

\* StepExecutionException/StepGenerationException raised by str(e) wrapping
Wrap(type, prefix, e) == Exc(type, prefix \o e.msg)

\* ------------------------------------------------- NLToGherkinGenerator
\* what the AI client answers to the translation prompt
TranslatorResponses ==
    { [kind |-> "client_error", steps |-> <<>>],
      [kind |-> "invalid_format", steps |-> <<>>] }
    \cup { [kind |-> "json_list", steps |-> s] : s \in SeqsUpTo(GherkinSteps, MaxSteps) }

\* generate_steps: every failure leaves as a StepGenerationException; the
\* "Invalid AI response format" one is itself an AIClientException and is
\* re-wrapped by the first except clause
GenerateSteps(resp) ==
    IF resp.kind = "client_error"
    THEN [raised |-> Exc("StepGenerationException", "AI client error: upstream error"),
          value |-> <<>>]
    ELSE IF resp.kind = "invalid_format"
    THEN [raised |-> Exc("StepGenerationException", "AI client error: Invalid AI response format"),
          value |-> <<>>]
    ELSE [raised |-> NoExc, value |-> resp.steps]

\* ---- generate_steps on the parsed JSON of a response (lines 78-89, 114-144)
\* a step of the response: a JSON object, given by the keys it has
StepObjects ==
    { ("gherkin" :> "When I click the Login button") @@ ("action" :> "click") }
      \cup { ("gherkin" :> g) @@ ("action" :> a) @@ ("target" :> t) @@ v :
               g \in {"When I enter the email"}, a \in {"click", "input", ""},
               t \in {"Email field", ""},
               v \in {<<>>, "value" :> "user@test.com", "value" :> None} }

\* json.loads(clean_content) when it is a list of objects
StepsData == SeqsUpTo(StepObjects, MaxSteps)

\* NLToGherkinGenerator.validate_response for a list of objects
ValidateSteps(data) ==
    \A i \in 1..Len(data) : {"gherkin", "action", "target"} \subseteq DOMAIN data[i]

\* GherkinStep.__post_init__ (a str is false when it is empty)
PostInit(step) ==
    IF step.gherkin = "" \/ step.action = "" \/ step.target = ""
    THEN Exc("ValueError", "Gherkin step must have gherkin text, action, and target")
    ELSE NoExc

\* step.get("value")
ValueOf(object) == IF "value" \in DOMAIN object THEN object["value"] ELSE None

\* GherkinStep(gherkin=step["gherkin"], action=step["action"],
\* target=step["target"], value=step.get("value"))
GherkinStepOf(object) ==
    [gherkin |-> object["gherkin"], action |-> object["action"],
     target |-> object["target"], value |-> ValueOf(object)]

\* lines 74-100 of generate_steps
ParseSteps(data) ==
    IF ~ValidateSteps(data)
    THEN [raised |-> Exc("StepGenerationException", "AI client error: Invalid AI response format"),
          value |-> <<>>]
    ELSE IF \E i \in 1..Len(data) : PostInit(GherkinStepOf(data[i])) # NoExc
    THEN [raised |-> Exc("StepGenerationException",
                         "Step generation failed: Gherkin step must have gherkin text, action, and target"),
          value |-> <<>>]
    ELSE [raised |-> NoExc, value |-> [i \in 1..Len(data) |-> GherkinStepOf(data[i])]]

\* ---------------------------------------------------- PlaywrightGenerator
\* what the AI client answers to the instruction prompt
InstructionResponses ==
    { [kind |-> "client_error", high |-> <<>>, low |-> <<>>],
      [kind |-> "unparseable", high |-> <<>>, low |-> <<>>],
      [kind |-> "missing_keys", high |-> <<>>, low |-> <<>>] }
    \cup { [kind |-> "json_dict", high |-> h, low |-> l] :
             h \in SeqsUpTo(HighCmds, MaxCmds), l \in SeqsUpTo(LowCmds, MaxCmds) }

\* PlaywrightGenerator.validate_response
ValidateResponse(resp) ==
    /\ resp.kind = "json_dict"
    /\ (resp.high # <<>> \/ resp.low # <<>>)

\* generate_instruction: returns the cleaned response only when it validates
GenerateInstruction(resp) ==
    IF resp.kind = "client_error"
    THEN [raised |-> Exc("StepGenerationException", "AI client error: upstream error"),
          value |-> resp]
    ELSE IF ~ValidateResponse(resp)
    THEN [raised |-> Exc("StepGenerationException",
                         "AI client error: Invalid Playwright instruction format"),
          value |-> resp]
    ELSE [raised |-> NoExc, value |-> resp]

\* json.loads(instruction_json) in _execute_single_step
JsonLoads(content) ==
    IF content.kind \in {"json_dict", "missing_keys"}
    THEN [raised |-> NoExc, value |-> [high |-> content.high, low |-> content.low]]
    ELSE [raised |-> Exc("JSONDecodeError", "Expecting value"),
          value |-> [high |-> <<>>, low |-> <<>>]]

\* --------------------------------------------------- _execute_single_step
StepExecutionResult(gherkin_step, execution_result, playwright_instruction, snapshot_json) ==
    [gherkin_step |-> gherkin_step,
     execution_result |-> execution_result,
     playwright_instruction |-> playwright_instruction,
     snapshot_json |-> snapshot_json]

NoInstructionData == [high |-> <<>>, low |-> <<>>]
NoResult == ExecutionResult(FALSE, None, None)

\* mutant: the handler's message leaves out str(e)
GenerationFailure_LosesError(gherkin_step, e, snapshot_json) ==
    [gherkin_step |-> gherkin_step,
     execution_result |-> [success |-> FALSE, screenshot_path |-> None,
                           error_message |-> "Step generation/execution failed: "],
     playwright_instruction |-> None,
     snapshot_json |-> snapshot_json]

\* except StepGenerationException (lines 367-386)
GenerationFailure(gherkin_step, e, snapshot_json) ==
    StepExecutionResult(gherkin_step,
        ExecutionResult(FALSE, None, "Step generation/execution failed: " \o e.msg),
        None, snapshot_json)

\* mutant: the handler leaves error_message at its default
StepFailure_NoMessage(gherkin_step, e, executed_instruction, snapshot_json) ==
    StepExecutionResult(gherkin_step,
        ExecutionResult(FALSE, None, None),
        executed_instruction, snapshot_json)

\* the outer except Exception (lines 402-422)
StepFailure(gherkin_step, e, executed_instruction, snapshot_json) ==
    StepExecutionResult(gherkin_step,
        ExecutionResult(FALSE, None, e.msg),
        executed_instruction, snapshot_json)

\* body of "for instruction in high_precision" after execute_step returned:
\* a failed result is returned at once, a success breaks out of the loop
HighBody(result) == IF ~result.success THEN "return" ELSE "break"

\* body of "for instruction in low_precision"
LowBody(result) == IF ~result.success THEN "return" ELSE "break"

\* mutant: the early return names executed_instruction, as the last return
\* of the function does
FailedInstruction_Executed(instruction, executed_instruction) == executed_instruction

\* playwright_instruction=instruction in the return for a failed command
\* (lines 325, 347)
FailedInstruction(instruction, executed_instruction) == instruction

\* mutant: the low tier is entered whatever the high tier did
NeedLow_Always(executed_instruction) == TRUE

\* if not executed_instruction (line 335)
NeedLow(executed_instruction) == executed_instruction = None

\* ------------------------------------------------------ run_operator_case
\* mutant: no catch-all clause after the two named ones
CaseHandler_NoCatchAll(e) ==
    IF e.type = "StepGenerationException"
    THEN [caught |-> TRUE, error_message |-> "Step generation error: " \o e.msg]
    ELSE IF e.type = "OperatorExecutionException"
    THEN [caught |-> TRUE, error_message |-> e.msg]
    ELSE [caught |-> FALSE, error_message |-> None]

\* the except clauses of run_operator_case (lines 234-245)
CaseHandler(e) ==
    IF e.type = "StepGenerationException"
    THEN [caught |-> TRUE, error_message |-> "Step generation error: " \o e.msg]
    ELSE IF e.type = "OperatorExecutionException"
    THEN [caught |-> TRUE, error_message |-> e.msg]
    ELSE [caught |-> TRUE, error_message |-> "Unexpected error: " \o e.msg]

\* mutant: a failed step is recorded but the loop goes on
CaseAfterStep_NoBreak(ser) ==
    IF ~ser.execution_result.success
    THEN [fail |-> TRUE, break |-> FALSE, error_message |-> ser.execution_result.error_message]
    ELSE [fail |-> FALSE, break |-> FALSE, error_message |-> None]

\* mutant: a failed step ends the loop but leaves success untouched
CaseAfterStep_KeepsSuccess(ser) ==
    IF ~ser.execution_result.success
    THEN [fail |-> FALSE, break |-> TRUE, error_message |-> None]
    ELSE [fail |-> FALSE, break |-> FALSE, error_message |-> None]

\* lines 225-228: what a step result does to the case
CaseAfterStep(ser) ==
    IF ~ser.execution_result.success
    THEN [fail |-> TRUE, break |-> TRUE, error_message |-> ser.execution_result.error_message]
    ELSE [fail |-> FALSE, break |-> FALSE, error_message |-> None]

\* mutant: an empty list passes the test
NoSteps_Never(steps) == FALSE

\* if not gherkin_steps (line 144)
NoSteps(steps) == steps = <<>>

\* str.strip on a line
RECURSIVE Strip(_)
Strip(line) ==
    IF line = <<>> THEN <<>>
    ELSE IF Head(line) = " " THEN Strip(Tail(line))
    ELSE IF line[Len(line)] = " " THEN Strip(SubSeq(line, 1, Len(line) - 1))
    ELSE line

\* the pieces of a line as one string
RECURSIVE Text(_)
Text(line) == IF line = <<>> THEN "" ELSE Head(line) \o Text(Tail(line))

\* nl_steps_list = [s.strip() for s in natural_language_steps.split('\n')
\* if s.strip()] (line 212)
RECURSIVE NlStepsList(_)
NlStepsList(lines) ==
    IF lines = <<>> THEN <<>>
    ELSE IF Text(Strip(Head(lines))) = "" THEN NlStepsList(Tail(lines))
    ELSE <<Text(Strip(Head(lines)))>> \o NlStepsList(Tail(lines))

\* nl_steps_list[idx] if idx < len(nl_steps_list) else "" (line 220)
NaturalLanguageStep(nl_steps_list, i) ==
    IF i < Len(nl_steps_list) THEN nl_steps_list[i + 1] ELSE ""

\* mutant: any navigate step that asserts the page state is skipped
SkipTest_AnyPosition(i, step) ==
    IF step.action = "navigate"
    THEN IF step.gherkin = NonStrText
         THEN [raised |-> Exc("AttributeError", "'int' object has no attribute 'lower'"),
               skip |-> FALSE]
         ELSE [raised |-> NoExc, skip |-> step.gherkin = AmOnText]
    ELSE [raised |-> NoExc, skip |-> FALSE]

\* line 215: the first step is skipped when it asserts the initial state
\* ("am on" in step.gherkin.lower() raises AttributeError on a non-string)
SkipTest(i, step) ==
    IF i = 0 /\ step.action = "navigate"
    THEN IF step.gherkin = NonStrText
         THEN [raised |-> Exc("AttributeError", "'int' object has no attribute 'lower'"),
               skip |-> FALSE]
         ELSE [raised |-> NoExc, skip |-> step.gherkin = AmOnText]
    ELSE [raised |-> NoExc, skip |-> FALSE]

\* generate_instruction(json.dumps(snapshot), gherkin_step.gherkin): the
\* prompt template's replace() raises TypeError on a non-string step text,
\* which leaves generate_instruction as a StepGenerationException
PromptFor(step) ==
    IF step.gherkin = NonStrText
    THEN Exc("StepGenerationException",
             "Playwright instruction generation failed: replace() argument 2 must be str, not int")
    ELSE NoExc

FailedToNavigate(u) ==
    "Failed to navigate to " \o u \o " after " \o ToString(max_retries) \o " attempts"

\* ------------------------------------------------------------ HTMLSummarizer
\* (app/infrastructure/html_summarizer.py). A parsed document is a tree of
\* nodes as BeautifulSoup gives them: a tag has a name, attrs and contents; a
\* NavigableString has the name "#text" and its text. An attribute value is a
\* string, except style, which is the sequence of the lexical pieces of its
\* text so that "in" (substring) can be computed, and class, a list.

Txt(t) == [name |-> "#text", text |-> t, attrs |-> <<>>, contents |-> <<>>]

El(name, attrs, contents) == [name |-> name, text |-> "", attrs |-> attrs, contents |-> contents]

IsTag(node) == node.name # "#text"

\* element.get(key, default)
Get(element, key, default) == IF key \in DOMAIN element.attrs THEN element.attrs[key] ELSE default

\* needle in hay, for strings given as their pieces
Contains(hay, needle) ==
    \E i \in 0..(Len(hay) - Len(needle)) : SubSeq(hay, i + 1, i + Len(needle)) = needle

\* str.strip() of a text of the documents below (" " is the only text with
\* white space in it)
StripText(t) == IF t = " " THEN "" ELSE t

\* the node at a path of positions in contents, from the body
RECURSIVE NodeAt(_, _)
NodeAt(node, path) ==
    IF path = <<>> THEN node ELSE NodeAt(node.contents[Head(path)], Tail(path))

\* element.find_all(recursive=False): the positions of the child tags
ChildElements(element) == { i \in 1..Len(element.contents) : IsTag(element.contents[i]) }

\* element.get_text(strip=True): the stripped, non-empty strings below it, joined
RECURSIVE GetText(_)
GetText(node) ==
    IF ~IsTag(node) THEN StripText(node.text)
    ELSE LET F[i \in 0..Len(node.contents)] ==
                 IF i = 0 THEN "" ELSE F[i - 1] \o GetText(node.contents[i])
         IN F[Len(node.contents)]

\* the literals of the style test (lines 41-42, 53)
DisplayNone == <<"display", ":", " ", "none">>
VisibilityHidden == <<"visibility", ":", " ", "hidden">>
OpacityZero == <<"opacity", ":", " ", "0">>

\* lines 41-46 for the element, 52-57 for a parent: hidden by its own attributes
HiddenByStyle(element) ==
    LET style == Get(element, "style", <<>>) IN
    Contains(style, DisplayNone) \/ Contains(style, VisibilityHidden) \/ Contains(style, OpacityZero)

\* element.get('hidden') or element.get('aria-hidden') == 'true': a string is
\* true when it is not empty, and <div hidden> has hidden = ''
HiddenByAttribute(element) ==
    Get(element, "hidden", "") # "" \/ Get(element, "aria-hidden", "") = "true"

\* lines 59-62
InMobileNav(parent) == \E j \in 1..Len(Get(parent, "class", <<>>)) : Get(parent, "class", <<>>)[j] = "mobile-nav"

\* the proper prefixes of a path: the parents up to the body
Parents(path) == { SubSeq(path, 1, n) : n \in 0..(Len(path) - 1) }

InteractiveTags == {"a", "button", "input", "select", "textarea"}
InteractiveRoles == {"button", "link", "textbox", "combobox", "menuitem", "tab"}

\* HTMLSummarizer.is_visible
RECURSIVE IsVisible(_, _)
IsVisible(body, path) ==
    LET element == NodeAt(body, path)
        text == GetText(element)
    IN
    IF ~IsTag(element) THEN FALSE
    ELSE IF HiddenByStyle(element) \/ HiddenByAttribute(element) THEN FALSE
    ELSE IF \E p \in Parents(path) :
              LET parent == NodeAt(body, p) IN
              HiddenByStyle(parent) \/ HiddenByAttribute(parent) \/ InMobileNav(parent)
    THEN FALSE
    ELSE IF element.name \in InteractiveTags \/ Get(element, "role", None) \in InteractiveRoles
    THEN text # "" \/ DOMAIN element.attrs # {} \/ ChildElements(element) # {}
    ELSE IF element.name \in {"img", "svg", "canvas", "iframe"} THEN TRUE
    ELSE IF text = "" /\ ChildElements(element) = {} THEN FALSE
    ELSE IF \E i \in ChildElements(element) : IsVisible(body, Append(path, i)) THEN TRUE
    ELSE text # ""

\* HTML_SUMMARIZER_CONFIG (app/utils/config.py)
RoleMap ==
    [ tag \in {"a", "button", "input", "select", "textarea", "h1", "h2", "h3", "h4", "h5", "h6",
               "div", "span", "p", "nav", "form", "header", "footer", "main", "article",
               "section", "aside", "img", "svg", "iframe", "canvas"} |->
        CASE tag = "a" -> "link"
          [] tag = "button" -> "button"
          [] tag \in {"input", "textarea"} -> "textbox"
          [] tag = "select" -> "combobox"
          [] tag \in {"h1", "h2", "h3", "h4", "h5", "h6"} -> "heading"
          [] tag \in {"div", "span"} -> "generic"
          [] tag = "p" -> "text"
          [] tag = "nav" -> "navigation"
          [] tag = "form" -> "form"
          [] tag = "header" -> "banner"
          [] tag = "footer" -> "contentinfo"
          [] tag = "main" -> "main"
          [] tag = "article" -> "article"
          [] tag = "section" -> "region"
          [] tag = "aside" -> "complementary"
          [] tag \in {"img", "svg", "canvas"} -> "img"
          [] tag = "iframe" -> "document" ]

InputTypeMap ==
    [ type \in {"text", "search", "email", "password", "checkbox", "radio", "submit", "reset",
                "file", "hidden", "image"} |->
        CASE type \in {"text", "email", "password", "file"} -> "textbox"
          [] type = "search" -> "searchbox"
          [] type = "checkbox" -> "checkbox"
          [] type = "radio" -> "radio"
          [] type \in {"submit", "reset", "image"} -> "button"
          [] type = "hidden" -> None ]

VisibleAttributes ==
    {"id", "class", "href", "aria-label", "data-testid", "role", "type", "value", "alt", "title",
     "aria-selected", "aria-checked", "aria-expanded", "aria-controls", "aria-describedby",
     "aria-required", "tabindex", "style", "src", "aria-level", "name", "placeholder"}

\* HTMLSummarizer.tag_to_role (tag names are lower case already)
TagToRole(tag_name, element) ==
    IF Get(element, "role", "") # "" THEN element.attrs["role"]
    ELSE IF tag_name = "input"
    THEN LET input_type == Get(element, "type", "text") IN
         IF input_type \in DOMAIN InputTypeMap THEN InputTypeMap[input_type] ELSE "textbox"
    ELSE IF tag_name = "select" THEN "combobox"
    ELSE IF tag_name \in DOMAIN RoleMap THEN RoleMap[tag_name] ELSE "generic"

\* element.string of BeautifulSoup: the string of a tag whose only child is a
\* string, or whose only child is a tag that has a string; None otherwise
RECURSIVE String(_)
String(element) ==
    IF Len(element.contents) # 1 THEN None
    ELSE IF ~IsTag(element.contents[1]) THEN element.contents[1].text
    ELSE String(element.contents[1])

\* lines 144-158: the rule of the tag
NameOfTag(element) ==
    IF element.name = "img" THEN StripText(Get(element, "alt", ""))
    ELSE IF element.name \in {"input", "textarea", "select"}
    THEN LET aria_label == StripText(Get(element, "aria-label", ""))
             value == StripText(Get(element, "value", ""))
             placeholder == StripText(Get(element, "placeholder", ""))
         IN IF aria_label # "" THEN aria_label
            ELSE IF value # "" THEN value
            ELSE IF placeholder # "" THEN placeholder
            ELSE StripText(Get(element, "name", ""))
    ELSE IF element.name = "iframe" THEN StripText(Get(element, "title", ""))
    ELSE ""

\* HTMLSummarizer.get_name
GetName(element, text) ==
    LET aria_label == StripText(Get(element, "aria-label", ""))
        role == TagToRole(element.name, element)
        direct_text == IF String(element) # None THEN StripText(String(element)) ELSE ""
    IN
    IF aria_label # "" THEN aria_label
    ELSE IF direct_text # "" /\ role # "generic" THEN direct_text
    ELSE IF role = "generic" /\ ChildElements(element) = {} /\ text # "" THEN text
    ELSE NameOfTag(element)

\* a dictionary with no key; element_to_json's None is as false as it is
NoNode == <<>>

\* ' '.join(attributes['class'])
RECURSIVE Join(_)
Join(list) ==
    IF list = <<>> THEN ""
    ELSE IF Len(list) = 1 THEN list[1]
    ELSE list[1] \o " " \o Join(Tail(list))

\* lines 178-183
Attributes(element) ==
    [ key \in DOMAIN element.attrs \cap VisibleAttributes |->
        IF key = "class" THEN Join(element.attrs[key]) ELSE element.attrs[key] ]

\* lines 193-201: int(attributes['aria-level']), 1 on a ValueError, else the
\* digit of the tag
Level(element) ==
    LET digits == [ d \in {"1", "2", "3", "4", "5", "6"} |->
                      CASE d = "1" -> 1 [] d = "2" -> 2 [] d = "3" -> 3
                        [] d = "4" -> 4 [] d = "5" -> 5 [] d = "6" -> 6 ]
        tags == [ t \in {"h1", "h2", "h3", "h4", "h5", "h6"} |->
                      CASE t = "h1" -> 1 [] t = "h2" -> 2 [] t = "h3" -> 3
                        [] t = "h4" -> 4 [] t = "h5" -> 5 [] t = "h6" -> 6 ]
    IN
    IF "aria-level" \in DOMAIN Attributes(element)
    THEN IF element.attrs["aria-level"] \in DOMAIN digits THEN digits[element.attrs["aria-level"]] ELSE 1
    ELSE IF element.name \in DOMAIN tags THEN tags[element.name] ELSE 1

\* parent.find(focus=True): the first tag below the parent, in document order,
\* that has a focus attribute (a tag named "#none": there is none)
RECURSIVE FindFocus(_)
FindFocus(parent) ==
    LET F[i \in 0..Len(parent.contents)] ==
            IF i = 0 THEN El("#none", <<>>, <<>>)
            ELSE IF F[i - 1].name # "#none" THEN F[i - 1]
            ELSE IF ~IsTag(parent.contents[i]) THEN F[i - 1]
            ELSE IF "focus" \in DOMAIN parent.contents[i].attrs THEN parent.contents[i]
            ELSE FindFocus(parent.contents[i])
    IN F[Len(parent.contents)]

\* lines 204-207
Focused(body, path) ==
    LET element == NodeAt(body, path) IN
    \/ Get(element, "focused", "") = "true"
    \/ /\ element.name \in {"input", "textarea"}
       /\ path # <<>>
       /\ element = FindFocus(NodeAt(body, SubSeq(path, 1, Len(path) - 1)))

\* the positions of the child tags, in document order
ChildPositions(element) ==
    SelectSeq([i \in 1..Len(element.contents) |-> i], LAMBDA i : IsTag(element.contents[i]))

\* HTMLSummarizer.element_to_json
RECURSIVE ElementToJson(_, _)
ElementToJson(body, path) ==
    LET element == NodeAt(body, path)
        text == GetText(element)
        role == TagToRole(element.name, element)
        is_visible == IsVisible(body, path)
        attributes == Attributes(element)
        name == GetName(element, text)
        positions == ChildPositions(element)
        children == SelectSeq([j \in 1..Len(positions) |->
                                  ElementToJson(body, Append(path, positions[j]))],
                              LAMBDA child_json : child_json # NoNode)
        hidden == IF ~is_visible THEN "visibility" :> "hidden" ELSE <<>>
    IN
    IF ~IsTag(element) \/ role = None THEN NoNode
    ELSE IF text # "" /\ role = "text" /\ text # name /\ "aria-label" \notin DOMAIN attributes
    THEN ("role" :> "text") @@ ("name" :> text) @@ hidden
    ELSE ("role" :> role) @@ ("name" :> name)
         @@ ( IF DOMAIN attributes # {} THEN "attributes" :> attributes ELSE <<>> )
         @@ hidden
         @@ ( IF role = "heading" THEN "level" :> Level(element) ELSE <<>> )
         @@ ( IF Focused(body, path) THEN "focused" :> TRUE ELSE <<>> )
         @@ ( IF Get(element, "haspopup", "") # "" THEN "haspopup" :> element.attrs["haspopup"] ELSE <<>> )
         @@ ( IF children # <<>> THEN "children" :> children ELSE <<>> )

\* summarize_html(None): the argument that is no markup
NoHtml == [title |-> None, body |-> El("#none", <<>>, <<>>)]

\* HTMLSummarizer.__init__ (lines 19-29)
NewSummarizer ==
    [parser |-> "lxml", role_map |-> RoleMap, input_type_map |-> InputTypeMap,
     visible_attributes |-> VisibleAttributes]

\* mutant: the fallback parser is kept for the calls that follow
SummarizeHtml_KeepsParser(self, html_content) ==
    IF html_content = NoHtml
    THEN [raised |-> Exc("ValueError", "html_content cannot be None"), self |-> self, value |-> NoNode]
    ELSE [raised |-> NoExc, self |-> [self EXCEPT !.parser = "html5lib"],
          value |-> ("role" :> "WebArea") @@ ("name" :> html_content.title)
                      @@ ElementToJson(html_content.body, <<>>)]

\* HTMLSummarizer.summarize_html. html_content is given as BeautifulSoup
\* parses it: the text of its title ('' without one) and its body; the node
\* of the body is never None, its role being generic
SummarizeHtml(self, html_content) ==
    IF html_content = NoHtml
    THEN [raised |-> Exc("ValueError", "html_content cannot be None"), self |-> self, value |-> NoNode]
    ELSE LET json_result == ElementToJson(html_content.body, <<>>)
             title == html_content.title
         IN [raised |-> NoExc, self |-> self,
             value |-> IF json_result = NoNode
                       THEN ("role" :> "WebArea") @@ ("name" :> title) @@ ("children" :> <<>>)
                       ELSE ("role" :> "WebArea") @@ ("name" :> title) @@ json_result]

\* ---- the documents the summarizer is applied to
StyleTexts ==
    { <<"display", ":", " ", "none", ";">>,       \* "display: none;"
      <<"display", ":", "none">>,                 \* "display:none"
      <<"visibility", ":", " ", "hidden">>,       \* "visibility: hidden"
      <<"opacity", ":", "0">>,                    \* "opacity:0"
      <<"color", ":", " ", "red">> }              \* "color: red"

\* attributes that bear on visibility (<div hidden> has hidden = '')
HidingAttrs ==
    { <<>>, "hidden" :> "", "hidden" :> "hidden", "aria-hidden" :> "true", "aria-hidden" :> "false" }
      \cup { "style" :> s : s \in StyleTexts }

\* attributes that bear on the name and the role
NamingAttrs ==
    { "aria-label" :> "A", "aria-label" :> " ", "alt" :> "Alt", "value" :> "V",
      "placeholder" :> "P", "name" :> "N", "title" :> "T", "type" :> "hidden",
      "role" :> "button", ("placeholder" :> "P") @@ ("value" :> "V") }

VoidTags == {"input", "img"}
LeafTags == {"span", "p", "button", "iframe"} \cup VoidTags

Leaves ==
    { El(t, a, c) : t \in LeafTags, a \in HidingAttrs \cup NamingAttrs,
                    c \in {<<>>, <<Txt("B")>>} }

\* the elements put inside another element
InnerElements ==
    { l \in Leaves : /\ l.name \in {"span", "button"}
                     /\ l.contents # <<>>
                     /\ l.attrs \in {<<>>, "aria-label" :> "A", "style" :> <<"display", ":", " ", "none", ";">>} }

Wrappers ==
    { El(t, a, c) : t \in {"div", "button", "p"}, a \in HidingAttrs,
                    c \in { <<l>> : l \in InnerElements } \cup { <<Txt("C"), l>> : l \in InnerElements } }

\* <body> with one element, or with the two elements of test_invisible_elements
\* in either order
Bodies ==
    { El("body", <<>>, <<n>>) : n \in { l \in Leaves : l.name \in VoidTags => l.contents = <<>> } \cup Wrappers }
      \cup { El("body", <<>>, c) :
               c \in { << El("div", "style" :> <<"display", ":", " ", "none", ";">>, <<Txt("Hidden")>>),
                          El("p", <<>>, <<Txt("Visible")>>) >>,
                       << El("p", <<>>, <<Txt("Visible")>>),
                          El("div", "style" :> <<"display", ":", " ", "none", ";">>, <<Txt("Hidden")>>) >> } }

\* the positions of the tags of a document
RECURSIVE ElementPaths(_)
ElementPaths(node) ==
    {<<>>} \cup UNION { { <<i>> \o p : p \in ElementPaths(node.contents[i]) } : i \in ChildElements(node) }

\* ------------------------------------------------------------------ state
VARIABLES
    pc,                  \* position inside run_operator_case
    url,                 \* the url argument
    natural_language_steps, \* the natural_language_steps argument, as lines
    translation,         \* how the translator's call ended
    gherkin_steps,       \* the translator's list
    browser_manager,     \* self._browser_manager is not None
    browser_initialized, \* self._browser_initialized
    handles,             \* the manager's _playwright, _browser, _page
    start_calls,         \* calls of BrowserManager.start
    stop_calls,          \* calls of BrowserManager.stop
    attempt,             \* loop variable of the navigation loop
    goto_calls,          \* goto commands handed to execute_step
    navigation_success,
    wait_result,         \* what the load-state command of the last attempt returned
    idx,                 \* loop variable of the step loop
    instruction_data,    \* parsed instruction JSON of the current step
    k,                   \* position in the tier list being tried
    executed_instruction,
    execution_result,
    snapshot_json,
    steps_results,
    success,
    error_message,
    case_error,          \* which except clause of run_operator_case ran
    propagated,          \* an exception left run_operator_case
    events,              \* calls made for the steps, in order
    manager,             \* a PlaywrightManager used on its own
    returned,            \* the last call made on it and how it ended
    one_runner,          \* two invocations: on one OperatorRunnerService or on two
    runners,             \* their runners' _browser_manager and _browser_initialized
    managers,            \* the PlaywrightManagers the invocations created
    invocations,         \* where each of the two invocations is
    clock,               \* what datetime.now() returns
    uuids,               \* how many ids uuid.uuid4() has returned
    applied,             \* the last call of a function of the summarizer, and its value
    summarizer           \* the HTMLSummarizer the calls are made on

vars == <<pc, url, natural_language_steps, translation, gherkin_steps, browser_manager, browser_initialized, handles,
          start_calls, stop_calls, attempt, goto_calls, navigation_success, wait_result, idx,
          instruction_data, k, executed_instruction, execution_result,
          snapshot_json, steps_results, success, error_message, case_error,
          propagated, events, manager, returned,
          one_runner, runners, managers, invocations, clock, uuids, applied, summarizer>>

sessionVars == <<browser_manager, browser_initialized, handles, start_calls, stop_calls>>
navVars == <<attempt, goto_calls, navigation_success, wait_result>>
stepVars == <<instruction_data, k, executed_instruction, execution_result, snapshot_json>>
caseVars == <<steps_results, success, error_message, case_error, propagated>>
managerVars == <<manager, returned>>
concurrentVars == <<one_runner, runners, managers, invocations, clock, uuids>>
callVars == <<applied, summarizer>>
otherVars == <<managerVars, concurrentVars, callVars>>

\* the two concurrent invocations of run_operator_case
Invocations == {1, 2}

\* OperatorRunnerService.__init__ (0: _browser_manager is None)
NewRunner == [browser_manager |-> 0, browser_initialized |-> FALSE]

\* mutant: the metadata dictionary is created empty
Metadata_Empty(request_id) == [request_id |-> None]

\* metadata = {"request_id": str(uuid.uuid4())} (line 137)
Metadata(request_id) == [request_id |-> request_id]

\* uuid.uuid4(): a value it has not returned before
Uuid4(n) == "uuid-" \o ToString(n + 1)

\* (-1: the local variable is not assigned yet)
NewInvocation ==
    [pc |-> "idle", starting |-> 0,
     start_time |-> -1, end_time |-> -1, metadata |-> Metadata(None),
     screenshots |-> <<>>, snapshots |-> {}]

\* datetime.now().strftime("%Y%m%d_%H%M%S_%f") (line 375)
Timestamp(now) == ToString(now)

\* str(Path(self.config.screenshot_dir) / f"{prefix}_{timestamp}.png")
\* (lines 375-377), screenshot_dir being the default of BrowserConfig
ScreenshotPath(prefix, now) == "screenshots/" \o prefix \o "_" \o Timestamp(now) \o ".png"

\* the file_path of save_snapshot as _execute_single_step calls it
\* (snapshot_storage.py line 6, operator_runner.py line 295)
SnapshotPath == "snapshot_json.log"

\* PlaywrightManager.__init__
NewManager == [handles |-> Handles(FALSE, FALSE, FALSE, FALSE), life |-> "new", open |-> {}]

Returned(op, instruction, behaviour, page, raised, result, evaluated) ==
    [op |-> op, instruction |-> instruction, behaviour |-> behaviour, page |-> page,
     raised |-> raised, result |-> result, evaluated |-> evaluated]

NoBehaviour == [call_raises |-> FALSE, shot_raises |-> FALSE, error_shot_raises |-> FALSE]

Event(ev, step, tier, pos, cmd, ok) ==
    [ev |-> ev, step |-> step, tier |-> tier, pos |-> pos, cmd |-> cmd, ok |-> ok,
     result |-> NoResult]

\* execute_step has not been called
NotExecuted ==
    [raised |-> NoExc, result |-> ExecutionResult(FALSE, None, None), evaluated |-> FALSE,
     branch |-> "none", outcome |-> "none", reached |-> {}, logged |-> NoExc,
     goto_url |-> None, argument |-> None, waits |-> <<>>]

\* a call and what it returned: is_visible a truth value, get_name a string,
\* element_to_json and summarize_html a node, generate_steps a list or an
\* exception, execute_step its result and what it did
Applied(fn, arg, value) ==
    [fn |-> fn, arg |-> arg,
     visible |-> IF fn = "is_visible" THEN value ELSE FALSE,
     name |-> IF fn = "get_name" THEN value ELSE "",
     node |-> IF fn \in {"element_to_json", "summarize_html", "summarize_html_earlier"}
              THEN value ELSE NoNode,
     result |-> IF fn = "generate_steps" THEN value ELSE [raised |-> NoExc, value |-> <<>>],
     executed |-> IF fn = "execute_step" THEN value ELSE NotExecuted]

\* state after OperatorRunnerService.__init__ and the first lines of
\* run_operator_case (lines 87-88, 133-137)
Idle ==
    /\ pc = "idle"
    /\ url \in Urls
    /\ natural_language_steps \in NaturalLanguageInputs
    /\ translation = "none"
    /\ gherkin_steps = <<>>
    /\ browser_manager = FALSE
    /\ browser_initialized = FALSE
    /\ handles = Handles(FALSE, FALSE, FALSE, FALSE)
    /\ start_calls = 0
    /\ stop_calls = 0
    /\ attempt = 0
    /\ goto_calls = 0
    /\ navigation_success = FALSE
    /\ wait_result = NoResult
    /\ idx = 0
    /\ instruction_data = NoInstructionData
    /\ k = 0
    /\ executed_instruction = None
    /\ execution_result = NoResult
    /\ snapshot_json = None
    /\ steps_results = <<>>
    /\ success = TRUE
    /\ error_message = None
    /\ case_error = "none"
    /\ propagated = FALSE
    /\ events = <<>>
    /\ manager = NewManager
    /\ returned = Returned("none", None, NoBehaviour, FALSE, NoExc, None, FALSE)
    /\ runners = [r \in Invocations |-> NewRunner]
    /\ managers = <<>>
    /\ invocations = [c \in Invocations |-> NewInvocation]
    /\ clock = 0
    /\ uuids = 0

\* no function of the summarizer is applied on its own
NotApplied == Applied("none", None, None)

Init == Idle /\ one_runner = TRUE /\ applied = NotApplied /\ summarizer = NewSummarizer

\* an exception reaches the except clauses of run_operator_case; the finally
\* clause runs next whether or not one of them catches it
RaiseInCase(e) ==
    /\ pc' = "cleanup"
    /\ case_error' = e.type
    /\ IF CaseHandler(e).caught
       THEN /\ success' = FALSE
            /\ error_message' = CaseHandler(e).error_message
            /\ propagated' = FALSE
       ELSE /\ propagated' = TRUE
            /\ UNCHANGED <<success, error_message>>
    /\ UNCHANGED steps_results

\* run_operator_case is entered (lines 132-141)
Begin ==
    /\ pc = "idle"
    /\ UNCHANGED otherVars
    /\ pc' = "generating_steps"
    /\ UNCHANGED <<url, natural_language_steps, translation, gherkin_steps, idx, events>>
    /\ UNCHANGED <<sessionVars, navVars, stepVars, caseVars>>

\* 1. generate_steps and the empty-list test (lines 142-147)
Translate ==
    /\ pc = "generating_steps"
    /\ UNCHANGED otherVars
    /\ \E resp \in TranslatorResponses :
         LET g == GenerateSteps(resp) IN
         /\ translation' = IF g.raised # NoExc THEN "raised"
                            ELSE IF Len(g.value) = 0 THEN "empty"
                            ELSE "steps"
         /\ IF g.raised # NoExc
            THEN /\ RaiseInCase(Wrap("StepGenerationException", "Step generation failed: ", g.raised))
                 /\ UNCHANGED gherkin_steps
            ELSE IF NoSteps(g.value)
            THEN /\ RaiseInCase(Wrap("StepGenerationException", "Step generation failed: ",
                       Exc("ValidationException",
                           "No steps were generated from the natural language input")))
                 /\ UNCHANGED gherkin_steps
            ELSE /\ gherkin_steps' = g.value
                 /\ pc' = "init_browser"
                 /\ UNCHANGED caseVars
    /\ UNCHANGED <<url, natural_language_steps, idx, events>>
    /\ UNCHANGED <<sessionVars, navVars, stepVars>>

\* 2. _ensure_browser_ready -> _initialize_browser -> PlaywrightManager.start
\* (lines 90-114, 128-130; playwright_manager.py 125-177)
EnsureBrowserReady ==
    /\ pc = "init_browser"
    /\ UNCHANGED otherVars
    /\ \E outcome \in {"create_raises", "start_raises", "started"} :
         IF browser_initialized /\ browser_manager
         THEN /\ pc' = "navigating"
              /\ UNCHANGED <<sessionVars, caseVars>>
         ELSE IF outcome = "create_raises"
         THEN \* _setup_directories raises inside create_browser_manager
              /\ browser_initialized' = FALSE
              /\ UNCHANGED <<browser_manager, handles, start_calls, stop_calls>>
              /\ RaiseInCase(Exc("OperatorExecutionException",
                     "Failed to initialize browser: Permission denied"))
         ELSE IF outcome = "start_raises"
         THEN \* start() tears down with self.stop() and raises BrowserException
              /\ browser_manager' = TRUE
              /\ start_calls' = start_calls + 1
              /\ stop_calls' = stop_calls + 1
              /\ handles' = Start(handles, "launch").handles
              /\ browser_initialized' = FALSE
              /\ RaiseInCase(Wrap("OperatorExecutionException",
                     "Failed to initialize browser: ", Start(handles, "launch").raised))
         ELSE /\ browser_manager' = TRUE
              /\ start_calls' = start_calls + 1
              /\ handles' = Start(handles, "none").handles
              /\ browser_initialized' = TRUE
              /\ pc' = "navigating"
              /\ UNCHANGED <<stop_calls, caseVars>>
    /\ UNCHANGED <<url, natural_language_steps, translation, gherkin_steps, idx, events>>
    /\ UNCHANGED <<navVars, stepVars>>

\* mutant: the loop makes one pass too many
MoreAttempts_OneTooMany(a) == a < max_retries

\* for attempt in range(max_retries): another pass follows pass number a
MoreAttempts(a) == a + 1 < max_retries

\* 3. one pass of the navigation loop: the goto command, the load-state
\* command, the test of nav_result (lines 157-209)
NavAttempt ==
    /\ pc = "navigating"
    /\ UNCHANGED otherVars
    /\ \E b \in PageBehaviours, w \in PageBehaviours :
         LET nav == ExecuteStep(handles.page, url \in HttpUrls, b)
             wait == ExecuteStep(handles.page, TRUE, w)
             failed == \/ nav.raised # NoExc
                       \/ wait.raised # NoExc
                       \/ ~nav.result.success
         IN
         /\ goto_calls' = goto_calls + 1
         /\ wait_result' = IF nav.raised # NoExc \/ wait.raised # NoExc THEN NoResult ELSE wait.result
         /\ IF ~failed
            THEN /\ navigation_success' = TRUE
                 /\ pc' = "step_loop"
                 /\ UNCHANGED <<attempt, caseVars>>
            ELSE /\ attempt' = attempt + 1
                 /\ UNCHANGED navigation_success
                 /\ IF MoreAttempts(attempt)
                    THEN /\ pc' = "navigating"
                         /\ UNCHANGED caseVars
                    ELSE RaiseInCase(Exc("OperatorExecutionException", FailedToNavigate(url)))
    /\ UNCHANGED <<url, natural_language_steps, translation, gherkin_steps, idx, events>>
    /\ UNCHANGED <<sessionVars, stepVars>>

\* _execute_single_step returned ser: append it, then lines 225-228
ReturnStep(ser) ==
    /\ steps_results' = Append(steps_results,
            ser @@ [natural_language_step |->
                      NaturalLanguageStep(NlStepsList(natural_language_steps), idx)])
    /\ IF CaseAfterStep(ser).fail
       THEN /\ success' = FALSE
            /\ error_message' = CaseAfterStep(ser).error_message
       ELSE UNCHANGED <<success, error_message>>
    /\ IF CaseAfterStep(ser).break
       THEN pc' = "cleanup" /\ UNCHANGED idx
       ELSE pc' = "step_loop" /\ idx' = idx + 1
    /\ instruction_data' = NoInstructionData
    /\ k' = 0
    /\ executed_instruction' = None
    /\ execution_result' = NoResult
    /\ snapshot_json' = None
    /\ UNCHANGED <<case_error, propagated>>

\* 4. head of the step loop: end of the list, the skip of the first step,
\* or entry into _execute_single_step (lines 212-222, 281-284); the value of
\* the load-state command (lines 171-173), bound to no name, is gone
StepLoop ==
    /\ pc = "step_loop"
    /\ UNCHANGED otherVars
    /\ IF idx >= Len(gherkin_steps)
       THEN /\ pc' = "cleanup"
            /\ UNCHANGED <<idx, caseVars>>
       ELSE LET t == SkipTest(idx, gherkin_steps[idx + 1]) IN
            IF t.raised # NoExc
            THEN RaiseInCase(t.raised) /\ UNCHANGED idx
            ELSE IF t.skip
            THEN /\ idx' = idx + 1
                 /\ pc' = "step_loop"
                 /\ UNCHANGED caseVars
            ELSE /\ pc' = "step_snapshot"
                 /\ UNCHANGED <<idx, caseVars>>
    /\ UNCHANGED <<url, natural_language_steps, translation, gherkin_steps, events>>
    /\ wait_result' = NoResult
    /\ UNCHANGED <<sessionVars, attempt, goto_calls, navigation_success, stepVars>>

\* mutant: the test of the page content is left out
NoSnapshot_Never(snapshot_before) == FALSE

\* if not snapshot_before (line 289)
NoSnapshot(snapshot_before) == snapshot_before = "empty"

\* get_page_content, summarize_html, save_snapshot (lines 286-298)
Snapshot ==
    /\ pc = "step_snapshot"
    /\ UNCHANGED otherVars
    /\ \E content \in {"raises", "empty", "html"} :
         LET step == gherkin_steps[idx + 1] IN
         /\ events' = Append(events, Event("snapshot", idx, "-", 0, None, content = "html"))
         /\ IF ~handles.page
            THEN /\ ReturnStep(StepFailure(step,
                        Exc("BrowserException", "Browser not initialized"), None, None))
            ELSE IF content = "raises"
            THEN /\ ReturnStep(StepFailure(step,
                        Exc("BrowserException", "Failed to get page content: Target closed"),
                        None, None))
            ELSE IF NoSnapshot(content)
            THEN /\ ReturnStep(StepFailure(step,
                        Exc("StepExecutionException", "Empty page snapshot received"),
                        None, None))
            ELSE /\ snapshot_json' = "WebArea"
                 /\ pc' = "step_generate"
                 /\ UNCHANGED <<idx, instruction_data, k, executed_instruction,
                                execution_result, caseVars>>
    /\ UNCHANGED <<url, natural_language_steps, translation, gherkin_steps>>
    /\ UNCHANGED <<sessionVars, navVars>>

\* where _execute_single_step goes once a tier's loop is over (lines 335,
\* 357-360, 388-400): into the low tier, or out with a result
AfterTier(tier, step, data, executed, result, snap) ==
    IF tier = "high" /\ NeedLow(executed) /\ data.low # <<>>
    THEN [op |-> "low", ser |-> StepExecutionResult(step, result, executed, snap)]
    ELSE IF executed = None
    THEN [op |-> "return",
          ser |-> StepFailure(step,
                    Wrap("StepExecutionException", "Failed to execute instructions: ",
                         Exc("StepExecutionException",
                             "No valid instructions executed. Last error: Unknown error")),
                    executed, snap)]
    ELSE [op |-> "return", ser |-> StepExecutionResult(step, result, executed, snap)]

\* leave the tier's loop
LeaveTier(tier, step, executed, result) ==
    LET a == AfterTier(tier, step, instruction_data, executed, result, snapshot_json) IN
    IF a.op = "low"
    THEN /\ pc' = "step_low"
         /\ k' = 1
         /\ executed_instruction' = executed
         /\ execution_result' = result
         /\ UNCHANGED <<idx, instruction_data, snapshot_json, caseVars>>
    ELSE ReturnStep(a.ser)

\* generate_instruction and json.loads (lines 302-313, 362-386)
Generate ==
    /\ pc = "step_generate"
    /\ UNCHANGED otherVars
    /\ \E resp \in InstructionResponses :
         LET step == gherkin_steps[idx + 1]
             g == IF PromptFor(step) # NoExc
                  THEN [raised |-> PromptFor(step), value |-> resp]
                  ELSE GenerateInstruction(resp)
             j == JsonLoads(g.value)
         IN
         /\ events' = Append(events, Event("generate", idx, "-", 0, None,
                                            g.raised = NoExc /\ j.raised = NoExc))
         /\ IF g.raised # NoExc
            THEN ReturnStep(GenerationFailure(step, g.raised, snapshot_json))
            ELSE IF j.raised # NoExc
            THEN ReturnStep(GenerationFailure(step,
                    Wrap("StepGenerationException", "Invalid JSON response: ", j.raised),
                    snapshot_json))
            ELSE IF j.value.high # <<>>
            THEN /\ instruction_data' = j.value
                 /\ pc' = "step_high"
                 /\ k' = 1
                 /\ UNCHANGED <<idx, executed_instruction, execution_result,
                                snapshot_json, caseVars>>
            ELSE /\ instruction_data' = j.value
                 /\ LET a == AfterTier("high", step, j.value, None, NoResult, snapshot_json) IN
                    IF a.op = "low"
                    THEN /\ pc' = "step_low"
                         /\ k' = 1
                         /\ UNCHANGED <<idx, executed_instruction, execution_result,
                                        snapshot_json, caseVars>>
                    ELSE ReturnStep(a.ser)
    /\ UNCHANGED <<url, natural_language_steps, translation, gherkin_steps>>
    /\ UNCHANGED <<sessionVars, navVars>>

\* one pass of a tier's loop: execute_step on the k-th command, then the
\* loop body's decision (lines 314-333 and 336-355)
TryInstruction(tier, position) ==
    /\ pc = position
    /\ UNCHANGED otherVars
    /\ \E b \in PageBehaviours :
         LET step == gherkin_steps[idx + 1]
             list == IF tier = "high" THEN instruction_data.high ELSE instruction_data.low
             instruction == list[k]
             r == ExecuteStep(handles.page, IsInstructionAllowed(instruction), b)
             body == IF tier = "high" THEN HighBody(r.result) ELSE LowBody(r.result)
         IN
         /\ events' = Append(events,
                [Event("execute", idx, tier, k, instruction,
                       r.raised = NoExc /\ r.result.success)
                   EXCEPT !.result = r.result])
         /\ IF r.raised # NoExc
            THEN ReturnStep(StepFailure(step,
                    Wrap("StepExecutionException", "Failed to execute instructions: ", r.raised),
                    executed_instruction, snapshot_json))
            ELSE IF body = "return"
            THEN ReturnStep(StepExecutionResult(step, r.result,
                    FailedInstruction(instruction, executed_instruction), snapshot_json))
            ELSE IF body = "break"
            THEN LeaveTier(tier, step, instruction, r.result)
            ELSE IF k < Len(list)
            THEN /\ k' = k + 1
                 /\ execution_result' = r.result
                 /\ UNCHANGED <<pc, idx, instruction_data, executed_instruction,
                                snapshot_json, caseVars>>
            ELSE LeaveTier(tier, step, executed_instruction, r.result)
    /\ UNCHANGED <<url, natural_language_steps, translation, gherkin_steps>>
    /\ UNCHANGED <<sessionVars, navVars>>

TryHigh == TryInstruction("high", "step_high")

TryLow == TryInstruction("low", "step_low")

\* 5. the finally clause: _cleanup_browser, then the return (lines 116-126,
\* 246-260)
Cleanup ==
    /\ pc = "cleanup"
    /\ UNCHANGED otherVars
    /\ IF browser_manager
       THEN /\ stop_calls' = stop_calls + 1
            /\ handles' = Stop(handles)
            /\ browser_manager' = FALSE
            /\ browser_initialized' = FALSE
            /\ UNCHANGED start_calls
       ELSE UNCHANGED sessionVars
    /\ pc' = IF propagated THEN "raised" ELSE "done"
    /\ UNCHANGED <<url, natural_language_steps, translation, gherkin_steps, idx, events>>
    /\ UNCHANGED <<navVars, stepVars, caseVars>>

Next ==
    \/ Begin
    \/ Translate
    \/ EnsureBrowserReady
    \/ NavAttempt
    \/ StepLoop
    \/ Snapshot
    \/ Generate
    \/ TryHigh
    \/ TryLow
    \/ Cleanup

Spec == Init /\ [][Next]_vars

\* every await of run_operator_case returns or raises, so the coroutine is
\* always resumed
FairSpec == Spec /\ WF_vars(Next)

\* ------------------------------------------- PlaywrightManager on its own
\* the variables of run_operator_case stay as Init leaves them
caseState == <<pc, url, natural_language_steps, translation, gherkin_steps, idx, events,
               sessionVars, navVars, stepVars, caseVars>>

\* instructions handed to execute_step
Instructions == HighCmds \cup LowCmds

MgrInit == Init /\ url \in HttpUrls

\* start(); browser.close() or playwright.stop() may raise in the stop() of
\* a failed start
MgrStart ==
    /\ \E fails_at \in {"none"} \cup {StartStages[i] : i \in 1..Len(StartStages)},
          close_raises \in BOOLEAN :
         LET st == Start(manager.handles, fails_at) IN
         /\ manager' = [handles |-> st.handles,
                        life |-> IF st.raised = NoExc THEN "started" ELSE "start_failed",
                        open |-> IF st.raised = NoExc
                                 THEN Started(manager.open, fails_at)
                                 ELSE StillOpen(st.set, Started(manager.open, fails_at),
                                                close_raises)]
         /\ returned' = Returned("start", fails_at, NoBehaviour, manager.handles.page,
                                 st.raised, None, FALSE)
    /\ UNCHANGED <<caseState, concurrentVars, callVars>>

\* stop(); browser.close() or playwright.stop() may raise inside it
MgrStop ==
    /\ \E close_raises \in BOOLEAN :
         /\ manager' = [handles |-> Stop(manager.handles), life |-> "stopped",
                        open |-> StillOpen(manager.handles, manager.open, close_raises)]
         /\ returned' = Returned("stop", IF close_raises THEN "close raises" ELSE None,
                                 NoBehaviour, manager.handles.page, NoExc, None, FALSE)
    /\ UNCHANGED <<caseState, concurrentVars, callVars>>

\* execute_step(instruction)
MgrExecuteStep ==
    /\ \E instruction \in Instructions, b \in PageBehaviours :
         LET r == ExecuteStep(manager.handles.page, IsInstructionAllowed(instruction), b) IN
         returned' = Returned("execute_step", instruction, b, manager.handles.page,
                              r.raised,
                              IF r.raised = NoExc THEN r.result ELSE None,
                              r.evaluated)
    /\ UNCHANGED <<manager, caseState, concurrentVars, callVars>>

\* get_page_content()
MgrGetPageContent ==
    /\ \E content \in {"raises", "empty", "html"} :
         LET r == GetPageContent(manager.handles.page, content) IN
         returned' = Returned("get_page_content", content, NoBehaviour,
                              manager.handles.page, r.raised,
                              IF r.raised = NoExc THEN r.value ELSE None,
                              FALSE)
    /\ UNCHANGED <<manager, caseState, concurrentVars, callVars>>

MgrNext ==
    \/ MgrStart
    \/ MgrStop
    \/ MgrExecuteStep
    \/ MgrGetPageContent

MgrSpec == MgrInit /\ [][MgrNext]_vars

\* ------------------------------- two concurrent run_operator_case calls
\* Each action is the code between two awaits of one invocation; the event
\* loop interleaves the invocations at the awaits.

\* the runner an invocation was called on
RunnerOf(c) == IF one_runner THEN 1 ELSE c

ConcInit ==
    /\ Idle
    /\ url \in HttpUrls
    /\ one_runner \in BOOLEAN
    /\ applied = NotApplied
    /\ summarizer = NewSummarizer

\* lines 132-147: up to the return of "await generate_steps"
ConcTranslate(c) ==
    /\ invocations[c].pc = "idle"
    /\ \E translated \in BOOLEAN :
         invocations' = [invocations EXCEPT
                           ![c].pc = IF translated THEN "ensure" ELSE "cleanup",
                           ![c].start_time = clock,
                           ![c].metadata = Metadata(Uuid4(uuids))]
    /\ uuids' = uuids + 1
    /\ UNCHANGED <<runners, managers, clock>>
    /\ UNCHANGED <<one_runner, caseState, managerVars, callVars>>

\* _ensure_browser_ready and _initialize_browser up to "await start()"
\* (lines 128-130, 92-108)
ConcEnsureBrowserReady(c) ==
    LET r == RunnerOf(c) IN
    /\ invocations[c].pc = "ensure"
    /\ UNCHANGED <<one_runner, caseState, managerVars, callVars, clock, uuids>>
    /\ IF runners[r].browser_initialized /\ runners[r].browser_manager # 0
       THEN /\ invocations' = [invocations EXCEPT ![c].pc = "running"]
            /\ UNCHANGED <<runners, managers>>
       ELSE IF ~runners[r].browser_initialized
       THEN /\ managers' = Append(managers,
                              [creator |-> c, page |-> FALSE,
                               used_by |-> {}, stopped_by |-> {}, nulled_by |-> {}])
            /\ runners' = [runners EXCEPT ![r].browser_manager = Len(managers) + 1]
            /\ invocations' = [invocations EXCEPT
                                 ![c].pc = "starting",
                                 ![c].starting = Len(managers) + 1]
       ELSE /\ invocations' = [invocations EXCEPT ![c].pc = "running"]
            /\ UNCHANGED <<runners, managers>>
    /\ UNCHANGED <<one_runner, caseState, managerVars, callVars, clock, uuids>>

\* "await self._browser_manager.start()" returns or raises (lines 108-114)
ConcStartReturns(c) ==
    LET r == RunnerOf(c)
        m == invocations[c].starting
    IN
    /\ invocations[c].pc = "starting"
    /\ UNCHANGED <<one_runner, caseState, managerVars, callVars, clock, uuids>>
    /\ \E outcome \in {"start_raises", "started"} :
         IF outcome = "started"
         THEN /\ managers' = [managers EXCEPT ![m].page = TRUE]
              /\ runners' = [runners EXCEPT ![r].browser_initialized = TRUE]
              /\ invocations' = [invocations EXCEPT ![c].pc = "running"]
         ELSE /\ managers' = [managers EXCEPT ![m].page = FALSE,
                                              ![m].stopped_by = @ \cup {c}]
              /\ runners' = [runners EXCEPT ![r].browser_initialized = FALSE]
              /\ invocations' = [invocations EXCEPT ![c].pc = "cleanup"]

\* one "await self._browser_manager.execute_step(...)" or
\* "await self._browser_manager.get_page_content()" of the navigation loop
\* or of a step (lines 164-176, 288, 316, 338): it runs on the manager the
\* runner refers to at that moment; then the invocation goes on or ends
ConcCommand(c) ==
    LET m == runners[RunnerOf(c)].browser_manager IN
    /\ invocations[c].pc = "running"
    /\ IF m # 0 /\ managers[m].page
       THEN managers' = [managers EXCEPT ![m].used_by = @ \cup {c}]
       ELSE UNCHANGED managers
    /\ \E more \in BOOLEAN :
         invocations' = [invocations EXCEPT
                           ![c].pc = IF more THEN "running" ELSE "cleanup"]
    /\ UNCHANGED runners
    /\ UNCHANGED <<one_runner, caseState, managerVars, callVars, clock, uuids>>

\* mutant: the finally clause leaves the reference to the manager
AfterCleanup_KeepsManager(runner) == [runner EXCEPT !.browser_initialized = FALSE]

\* self._browser_manager = None; self._browser_initialized = False
\* (lines 124-125)
AfterCleanup(runner) == [runner EXCEPT !.browser_manager = 0, !.browser_initialized = FALSE]

\* _cleanup_browser up to the return of "await stop()" (lines 116-122);
\* without a manager it does nothing and the case returns (lines 117,
\* 249-260)
ConcCleanupStop(c) ==
    LET m == runners[RunnerOf(c)].browser_manager IN
    /\ invocations[c].pc = "cleanup"
    /\ IF m # 0
       THEN /\ managers' = [managers EXCEPT ![m].page = FALSE,
                                            ![m].stopped_by = @ \cup {c}]
            /\ invocations' = [invocations EXCEPT ![c].pc = "finally"]
       ELSE /\ UNCHANGED managers
            /\ invocations' = [invocations EXCEPT ![c].pc = "done", ![c].end_time = clock]
    /\ UNCHANGED runners
    /\ UNCHANGED <<one_runner, caseState, managerVars, callVars, clock, uuids>>

\* the finally clause of _cleanup_browser and the return (lines 123-126)
ConcCleanupFinally(c) ==
    LET r == RunnerOf(c)
        m == runners[r].browser_manager
    IN
    /\ invocations[c].pc = "finally"
    /\ UNCHANGED <<one_runner, caseState, managerVars, callVars, clock, uuids>>
    /\ IF m # 0
       THEN managers' = [managers EXCEPT ![m].nulled_by = @ \cup {c}]
       ELSE UNCHANGED managers
    /\ runners' = [runners EXCEPT ![r] = AfterCleanup(runners[r])]
    /\ invocations' = [invocations EXCEPT ![c].pc = "done", ![c].end_time = clock]

\* time passes while the invocations await
Tick ==
    /\ clock < MaxTicks
    /\ clock' = clock + 1
    /\ UNCHANGED <<one_runner, runners, managers, invocations, uuids>>
    /\ UNCHANGED <<caseState, managerVars, callVars>>

ConcNext ==
    \/ \E c \in Invocations : ConcTranslate(c)
    \/ \E c \in Invocations : ConcEnsureBrowserReady(c)
    \/ \E c \in Invocations : ConcStartReturns(c)
    \/ \E c \in Invocations : ConcCommand(c)
    \/ \E c \in Invocations : ConcCleanupStop(c)
    \/ \E c \in Invocations : ConcCleanupFinally(c)
    \/ Tick

ConcSpec == ConcInit /\ [][ConcNext]_vars

\* ---------------------- a suite: the cases one after the other, on one
\* runner (execute_operator_suite awaits each case before the next,
\* app/api/routes/operator_execution.py lines 185-192)
SeqInit ==
    /\ Idle
    /\ url \in HttpUrls
    /\ one_runner = TRUE
    /\ applied = NotApplied
    /\ summarizer = NewSummarizer

\* the cases before case c have returned
InTurn(c) == \A d \in Invocations : d < c => invocations[d].pc = "done"

SeqNext ==
    \/ \E c \in Invocations : InTurn(c) /\ ConcTranslate(c)
    \/ \E c \in Invocations : InTurn(c) /\ ConcEnsureBrowserReady(c)
    \/ \E c \in Invocations : InTurn(c) /\ ConcStartReturns(c)
    \/ \E c \in Invocations : InTurn(c) /\ ConcCommand(c)
    \/ \E c \in Invocations : InTurn(c) /\ ConcCleanupStop(c)
    \/ \E c \in Invocations : InTurn(c) /\ ConcCleanupFinally(c)
    \/ Tick

SeqSpec == SeqInit /\ [][SeqNext]_vars

\* ------------- the files that two concurrent cases write, each case on a
\* runner of its own, both with the default screenshot_dir and in the same
\* working directory. The clock may show the same time at two calls.
ArtifactInit ==
    /\ Idle
    /\ url \in HttpUrls
    /\ one_runner = FALSE
    /\ applied = NotApplied
    /\ summarizer = NewSummarizer

\* the case has its session and has navigated (lines 132-211)
EnterSteps(c) ==
    /\ invocations[c].pc = "idle"
    /\ invocations' = [invocations EXCEPT ![c].pc = "running"]
    /\ UNCHANGED <<one_runner, runners, managers, clock, uuids>>
    /\ UNCHANGED <<caseState, managerVars, callVars>>

\* _take_screenshot(prefix) in an execute_step call of the case
\* (playwright_manager.py lines 318, 344, 374-380)
TakeScreenshot(c) ==
    /\ invocations[c].pc = "running"
    /\ Len(invocations[c].screenshots) < MaxShots
    /\ \E prefix \in {"step", "error"} :
         invocations' = [invocations EXCEPT
                           ![c].screenshots = Append(@, ScreenshotPath(prefix, clock))]
    /\ UNCHANGED <<one_runner, runners, managers, clock, uuids>>
    /\ UNCHANGED <<caseState, managerVars, callVars>>

\* self.snapshot_storage.save_snapshot(snapshot_json) in a step of the case
\* (operator_runner.py line 295)
SaveSnapshot(c) ==
    /\ invocations[c].pc = "running"
    /\ invocations' = [invocations EXCEPT ![c].snapshots = @ \cup {SnapshotPath}]
    /\ UNCHANGED <<one_runner, runners, managers, clock, uuids>>
    /\ UNCHANGED <<caseState, managerVars, callVars>>

\* the case returns (lines 246-260)
ReturnCase(c) ==
    /\ invocations[c].pc = "running"
    /\ invocations' = [invocations EXCEPT ![c].pc = "done"]
    /\ UNCHANGED <<one_runner, runners, managers, clock, uuids>>
    /\ UNCHANGED <<caseState, managerVars, callVars>>

ArtifactNext ==
    \/ \E c \in Invocations : EnterSteps(c)
    \/ \E c \in Invocations : TakeScreenshot(c)
    \/ \E c \in Invocations : SaveSnapshot(c)
    \/ \E c \in Invocations : ReturnCase(c)
    \/ Tick

ArtifactSpec == ArtifactInit /\ [][ArtifactNext]_vars

\* ---- the functions of HTMLSummarizer applied on their own, to an element
\* of a parsed document
SummarizerInputs ==
    { [title |-> title, body |-> body, path |-> path] :
        title \in {"", "T"}, body \in Bodies, path \in {<<>>, <<1>>, <<2>>, <<1, 1>>, <<1, 2>>} }

\* the document of an earlier call: that of test_nested_elements, in short
EarlierDocument ==
    [title |-> "Earlier",
     body |-> El("body", <<>>, << El("div", <<>>, << El("p", <<>>, <<Txt("Text")>>),
                                                     El("button", <<>>, <<Txt("Click")>>) >>) >>)]

CallInit ==
    /\ Idle
    /\ one_runner = TRUE
    /\ url \in HttpUrls
    /\ applied \in { Applied("none", arg, None) :
                       arg \in { a \in SummarizerInputs : a.path \in ElementPaths(a.body) }
                                 \cup { [steps_data |-> data] : data \in StepsData }
                                 \cup [instruction : InstructionTexts, behaviour : PageBehaviours,
                                       navigation : NavigationBehaviours] }
    /\ summarizer = NewSummarizer

\* is_visible(element)
IsVisibleCall ==
    /\ "body" \in DOMAIN applied.arg
    /\ applied' = Applied("is_visible", applied.arg, IsVisible(applied.arg.body, applied.arg.path))
    /\ UNCHANGED <<summarizer, caseState, managerVars, concurrentVars>>

\* get_name(element, text) as element_to_json calls it (lines 169, 186)
GetNameCall ==
    /\ "body" \in DOMAIN applied.arg
    /\ applied' = Applied("get_name", applied.arg,
                          GetName(NodeAt(applied.arg.body, applied.arg.path),
                                  GetText(NodeAt(applied.arg.body, applied.arg.path))))
    /\ UNCHANGED <<summarizer, caseState, managerVars, concurrentVars>>

\* element_to_json(element)
ElementToJsonCall ==
    /\ "body" \in DOMAIN applied.arg
    /\ applied' = Applied("element_to_json", applied.arg,
                          ElementToJson(applied.arg.body, applied.arg.path))
    /\ UNCHANGED <<summarizer, caseState, managerVars, concurrentVars>>

\* summarize_html(html_content) for the document
SummarizeHtmlCall ==
    LET r == SummarizeHtml(summarizer, [title |-> applied.arg.title, body |-> applied.arg.body]) IN
    /\ "body" \in DOMAIN applied.arg
    /\ applied' = Applied("summarize_html", applied.arg, r.value)
    /\ summarizer' = r.self
    /\ UNCHANGED <<caseState, managerVars, concurrentVars>>

\* summarize_html for another document, or for None, on the same summarizer
SummarizeEarlierCall ==
    /\ "body" \in DOMAIN applied.arg
    /\ \E html_content \in {EarlierDocument, NoHtml} :
         LET r == SummarizeHtml(summarizer, html_content) IN
         /\ applied' = Applied("summarize_html_earlier", applied.arg, r.value)
         /\ summarizer' = r.self
    /\ UNCHANGED <<caseState, managerVars, concurrentVars>>

\* generate_steps from the parsed response on
GenerateStepsCall ==
    /\ "steps_data" \in DOMAIN applied.arg
    /\ applied' = Applied("generate_steps", applied.arg, ParseSteps(applied.arg.steps_data))
    /\ UNCHANGED <<summarizer, caseState, managerVars, concurrentVars>>

\* execute_step(instruction) on a manager that has a page and the
\* configuration BrowserConfig()
ExecuteStepCall ==
    /\ "instruction" \in DOMAIN applied.arg
    /\ applied' = Applied("execute_step", applied.arg,
                          ExecuteInstruction(TRUE, applied.arg.instruction,
                                             applied.arg.behaviour, applied.arg.navigation,
                                             BrowserConfig(TRUE, DefaultTimeout)))
    /\ UNCHANGED <<summarizer, caseState, managerVars, concurrentVars>>

CallNext ==
    \/ ExecuteStepCall
    \/ GenerateStepsCall
    \/ IsVisibleCall
    \/ GetNameCall
    \/ ElementToJsonCall
    \/ SummarizeHtmlCall
    \/ SummarizeEarlierCall

CallSpec == CallInit /\ [][CallNext]_vars

\* ------------- one command of a case whose runner has the configuration
\* browser_config and which was called with the argument headless
CommandInit ==
    /\ Idle
    /\ one_runner = TRUE
    /\ url \in HttpUrls
    /\ applied \in { Applied("none", arg, None) :
                       arg \in [instruction : InstructionTexts, behaviour : PageBehaviours,
                                navigation : NavigationBehaviours,
                                browser_config : BrowserConfigs, headless : HeadlessArgs] }
    /\ summarizer = NewSummarizer

\* _initialize_browser(headless), then execute_step(instruction) on the
\* manager it created
CommandCall ==
    /\ "browser_config" \in DOMAIN applied.arg
    /\ applied' = Applied("execute_step", applied.arg,
                          ExecuteInstruction(TRUE, applied.arg.instruction,
                                             applied.arg.behaviour, applied.arg.navigation,
                                             EffectiveConfig(applied.arg.browser_config,
                                                             applied.arg.headless)))
    /\ UNCHANGED <<summarizer, caseState, managerVars, concurrentVars>>

CommandNext == CommandCall

CommandSpec == CommandInit /\ [][CommandNext]_vars


\* ================================================================ claims
Last(s) == s[Len(s)]

Finished == pc \in {"done", "raised"}

\* positions of the events of step i
EventsOf(i) == {j \in 1..Len(events) : events[j].step = i}

Executions(evs, i) == {j \in 1..Len(evs) : evs[j].step = i /\ evs[j].ev = "execute"}

Snapshots == {j \in 1..Len(events) : events[j].ev = "snapshot"}

\* the step returned a result out of one of the two command loops
CommandLoopReturns ==
    /\ pc \in {"step_high", "step_low"}
    /\ Len(steps_results') = Len(steps_results) + 1

\* C1: within a step the high_precision commands are tried in list order and
\* the attempts go on past a failed command: when the command at position k
\* of high_precision fails and a later high-precision command exists, the
\* next attempt of the step is the command at position k + 1.
C1_HighContinuesPastFailure ==
    [][ ( /\ pc = "step_high"
          /\ Len(events') = Len(events) + 1
          /\ ~Last(events').ok
          /\ k < Len(instruction_data.high) )
        => ( /\ pc' = "step_high"
             /\ k' = k + 1
             /\ Len(steps_results') = Len(steps_results) ) ]_vars

\* C2: when the high_precision commands have failed, the low_precision
\* commands are tried; a step is reported failed by its commands only after
\* every command of both tiers has been attempted (and failed).
C2_FailedOnlyAfterAllCommands ==
    [][ ( /\ CommandLoopReturns
          /\ ~Last(steps_results').execution_result.success )
        => ( /\ Cardinality(Executions(events', idx))
                  = Len(instruction_data.high) + Len(instruction_data.low)
             /\ \A j \in Executions(events', idx) : ~events'[j].ok ) ]_vars

\* the last command in attempt order of an instruction set
LastInAttemptOrder(data) ==
    IF data.low # <<>> THEN Last(data.low) ELSE Last(data.high)

\* C3: a step whose commands all failed carries the result and the
\* instruction of the last command in attempt order (the final low_precision
\* command when low_precision is non-empty), not those of an earlier command.
C3_FailureIsLastCommand ==
    [][ ( /\ CommandLoopReturns
          /\ ~Last(steps_results').execution_result.success )
        => Last(steps_results').playwright_instruction
             = LastInAttemptOrder(instruction_data) ]_vars

\* C4: on every path of run_operator_case the session's stop routine
\* (BrowserManager.stop) has been invoked exactly once when the case is over.
C4_StopExactlyOnce == Finished => stop_calls = 1

\* the structured steps the case does not skip, in order
RECURSIVE NonSkippedFrom(_, _)
NonSkippedFrom(steps, i) ==
    IF i >= Len(steps) THEN <<>>
    ELSE IF i = 0 /\ steps[1].action = "navigate" /\ steps[1].gherkin = AmOnText
    THEN NonSkippedFrom(steps, i + 1)
    ELSE <<steps[i + 1]>> \o NonSkippedFrom(steps, i + 1)

NonSkipped(steps) == NonSkippedFrom(steps, 0)

\* C5: steps_results is, in order, the results of a prefix of the non-skipped
\* steps, one result per step; every entry but the last is successful; after
\* an unsuccessful result nothing more is done for any step (the case is in
\* cleanup or over, every step that was entered has its result, every event
\* belongs to the failed step or an earlier one) and the case's error_message
\* is that of the failed step.
C5_StepsArePrefixAndStopAtFailure ==
    /\ Len(steps_results) <= Len(NonSkipped(gherkin_steps))
    /\ \A i \in 1..Len(steps_results) :
         steps_results[i].gherkin_step = NonSkipped(gherkin_steps)[i]
    /\ \A i \in 1..(Len(steps_results) - 1) : steps_results[i].execution_result.success
    /\ ( steps_results # <<>> /\ ~Last(steps_results).execution_result.success )
         => /\ pc \in {"cleanup", "done"}
            /\ ~success
            /\ error_message = Last(steps_results).execution_result.error_message
            /\ Cardinality(Snapshots) = Len(steps_results)
            /\ \A j \in 1..Len(events) : events[j].step <= idx

C5_Witness ==
    /\ pc = "done"
    /\ Len(steps_results) = 2
    /\ steps_results[1].execution_result.success
    /\ ~steps_results[2].execution_result.success
    /\ error_message = "Timeout exceeded"

C7_StepOrdering ==
    \A i \in 0..Len(gherkin_steps) :
      \A b \in EventsOf(i) :
        /\ events[b].ev = "snapshot" => \A a \in EventsOf(i) : a >= b
        /\ events[b].ev = "generate" =>
             /\ \E a \in EventsOf(i) : a < b /\ events[a].ev = "snapshot" /\ events[a].ok
             /\ \A a \in EventsOf(i) : a < b => events[a].ev = "snapshot"
        /\ events[b].ev = "execute" =>
             /\ \E a \in EventsOf(i) : a < b /\ events[a].ev = "generate" /\ events[a].ok
             /\ \A a \in Executions(events, i) :
                  a < b => /\ ~events[a].ok
                           /\ ~(events[a].tier = "low" /\ events[b].tier = "high")

C7_Witness ==
    /\ pc = "done"
    /\ \E a \in 1..Len(events) :
         events[a].ev = "execute" /\ events[a].tier = "high" /\ events[a].ok
    /\ \E a \in 1..Len(events) :
         events[a].ev = "execute" /\ events[a].tier = "low" /\ ~events[a].ok

\* C8: the returned success flag is true exactly when every entry of
\* steps_results is successful and no except clause of run_operator_case ran.
C8_SuccessIff ==
    pc = "done" =>
      ( success <=> ( /\ \A i \in 1..Len(steps_results) :
                           steps_results[i].execution_result.success
                      /\ case_error = "none" ) )

C8_Witness ==
    /\ pc = "done"
    /\ success
    /\ Len(steps_results) = 2
    /\ case_error = "none"

GenerationErrors ==
    { "AI client error: upstream error",
      "AI client error: Invalid Playwright instruction format",
      "Playwright instruction generation failed: replace() argument 2 must be str, not int" }

\* C10: a failed generation is the last thing done for steps: the step's
\* result is unsuccessful and carries the generation error, it names no
\* executed instruction, no command was executed for the step, and the case
\* has stopped at that step with success=false.
C10_GenerationFailureStopsStep ==
    \A j \in 1..Len(events) :
      ( events[j].ev = "generate" /\ ~events[j].ok ) =>
        /\ j = Len(events)
        /\ Executions(events, events[j].step) = {}
        /\ pc \in {"cleanup", "done"}
        /\ ~success
        /\ Len(steps_results) = Cardinality(Snapshots)
        /\ ~Last(steps_results).execution_result.success
        /\ Last(steps_results).playwright_instruction = None
        /\ \E m \in GenerationErrors :
             /\ Last(steps_results).execution_result.error_message
                  = "Step generation/execution failed: " \o m
             /\ error_message = "Step generation/execution failed: " \o m

C10_Witness ==
    /\ pc = "done"
    /\ Len(steps_results) = 2
    /\ events # <<>>
    /\ Last(events).ev = "generate"
    /\ Last(steps_results).execution_result.error_message
         = "Step generation/execution failed: AI client error: Invalid Playwright instruction format"

\* C11: when the translator raises or returns an empty list the case fails
\* before anything else is used: no browser manager is created or started, no
\* navigation command is issued, nothing is done for a step, and the case has
\* success=false and no step result.
C11_TranslationFailureUsesNothing ==
    translation \in {"raised", "empty"} =>
      /\ pc \in {"cleanup", "done"}
      /\ ~browser_manager
      /\ start_calls = 0
      /\ goto_calls = 0
      /\ events = <<>>
      /\ steps_results = <<>>
      /\ ~success

C11_Witness ==
    /\ pc = "done"
    /\ translation = "empty"
    /\ ~success
    /\ start_calls = 0

\* C12: an empty list from the translator is reported under the validation
\* error class and a translator exception under the generation error class,
\* so that the two outcomes differ in the class they are reported under.
C12_EmptyListIsValidationFailure ==
    pc = "done" =>
      /\ translation = "empty" => case_error = "ValidationException"
      /\ translation = "raised" => case_error = "StepGenerationException"

\* the step at position i (from 0) asserts the initial page state
AssertsInitialState(i) ==
    /\ i = 0
    /\ gherkin_steps[i + 1].action = "navigate"
    /\ gherkin_steps[i + 1].gherkin = AmOnText

\* position (from 0) in gherkin_steps of the step behind steps_results[r]
PositionOf(r) ==
    IF gherkin_steps # <<>> /\ AssertsInitialState(0) THEN r ELSE r - 1

\* C13: a step is skipped (no snapshot, generation or command event and no
\* result) exactly when it is the first step, its action is navigate and its
\* text is the "am on" assertion; every other step the loop has passed, a
\* later one of the same action and text included, has its snapshot and its
\* result; and each result holds the step and the natural-language line of
\* the step's own position in the translator's list ("" beyond the lines).
C13_SkipOnlyFirstAmOnStep ==
    /\ \A i \in 0..(Len(gherkin_steps) - 1) :
         /\ AssertsInitialState(i) =>
              /\ EventsOf(i) = {}
              /\ \A r \in 1..Len(steps_results) : PositionOf(r) # i
         /\ ( ~AssertsInitialState(i) /\ i < idx ) =>
              /\ \E j \in EventsOf(i) : events[j].ev = "snapshot"
              /\ \E r \in 1..Len(steps_results) : PositionOf(r) = i
    /\ \A r \in 1..Len(steps_results) :
         /\ steps_results[r].gherkin_step = gherkin_steps[PositionOf(r) + 1]
         /\ steps_results[r].natural_language_step =
              IF PositionOf(r) < Len(NlStepsList(natural_language_steps))
              THEN NlStepsList(natural_language_steps)[PositionOf(r) + 1]
              ELSE ""

C13_Witness ==
    /\ pc = "done"
    /\ success
    /\ Len(gherkin_steps) = 2
    /\ gherkin_steps[1] = [gherkin |-> AmOnText, action |-> "navigate"]
    /\ gherkin_steps[2] = [gherkin |-> AmOnText, action |-> "navigate"]
    /\ Len(steps_results) = 1
    /\ steps_results[1].natural_language_step = "Open the settings page"
    /\ \E j \in EventsOf(1) : events[j].ev = "execute" /\ events[j].ok

C15_ScreenshotAlwaysPresent ==
    handles.page =>
      \A r \in 1..Len(steps_results) :
        steps_results[r].execution_result.screenshot_path # None

\* C16: a screenshot failure leaves the command's outcome as it was: a
\* command that succeeded is reported with success=true although the
\* screenshot after it failed, and a command that failed is reported with its
\* own error although the error screenshot failed too.
C16_ScreenshotFailureKeepsOutcome ==
    ( returned.op = "execute_step" /\ returned.evaluated ) =>
      /\ ( ~returned.behaviour.call_raises /\ returned.behaviour.shot_raises )
           => returned.result.success
      /\ ( returned.behaviour.call_raises /\ returned.behaviour.error_shot_raises )
           => /\ ~returned.result.success
              /\ returned.result.error_message = "Timeout exceeded"

\* C19: stop() does not raise and leaves every handle of the manager null,
\* whatever the manager's state was; a second stop() changes nothing.
C19_StopNullsEveryHandle ==
    returned.op = "stop" =>
      /\ returned.raised = NoExc
      /\ manager.handles = Handles(FALSE, FALSE, FALSE, FALSE)
      /\ Stop(manager.handles) = manager.handles

\* C20: execute_step and get_page_content called without a live page raise
\* BrowserException, evaluate nothing and return no result.
C20_NoPageRaises ==
    ( returned.op \in {"execute_step", "get_page_content"} /\ ~returned.page ) =>
      /\ returned.raised.type = "BrowserException"
      /\ ~returned.evaluated
      /\ returned.result = None

C20_Witness ==
    /\ manager.life = "start_failed"
    /\ returned.op = "execute_step"
    /\ ~returned.page
    /\ returned.raised.type = "BrowserException"

\* the phase a position of run_operator_case belongs to, as its rank in
\* idle, generating-steps, navigating (with the session's acquisition),
\* executing-steps, cleanup, done
Phase(p) ==
    CASE p = "idle" -> 0
      [] p = "generating_steps" -> 1
      [] p \in {"init_browser", "navigating"} -> 2
      [] p \in {"step_loop", "step_snapshot", "step_generate", "step_high", "step_low"} -> 3
      [] p = "cleanup" -> 4
      [] OTHER -> 5

\* C18: the phases of a run never go back (an error goes forward to
\* cleanup); cleanup is entered once, is followed by done, and done is
\* entered from cleanup only; once cleanup has started no browser is started
\* and no navigation, snapshot, generation or command call is made; and the
\* run eventually reaches done.
C18_PhasesInOrderToDone ==
    /\ [][Phase(pc') >= Phase(pc)]_vars
    /\ [][pc = "cleanup" => pc' = "done"]_vars
    /\ [][pc' = "done" => pc = "cleanup"]_vars
    /\ [][( pc \in {"cleanup", "done"} ) =>
            ( start_calls' = start_calls /\ goto_calls' = goto_calls
              /\ events' = events )]_vars
    /\ <>(pc = "done")

C18_Witness ==
    /\ pc = "done"
    /\ navigation_success
    /\ success
    /\ Len(gherkin_steps) = 2
    /\ Len(steps_results) = 2
    /\ Cardinality(Executions(events, 0)) = 1
    /\ Cardinality(Executions(events, 1)) = 1
    /\ stop_calls = 1

\* C17: of two interleaved invocations each uses only the session it
\* started: a command or page read runs only on the manager the invocation
\* created, a manager is stopped and its reference nulled only by the
\* invocation that created it, and when both invocations are over every page
\* that came alive has been closed by its creator.
C17_SessionsAreNotShared ==
    /\ \A m \in 1..Len(managers) :
         /\ managers[m].used_by \subseteq {managers[m].creator}
         /\ managers[m].stopped_by \subseteq {managers[m].creator}
         /\ managers[m].nulled_by \subseteq {managers[m].creator}
    /\ ( \A c \in Invocations : invocations[c].pc = "done" ) =>
         \A m \in 1..Len(managers) : ~managers[m].page

\* C21: every returned case, whatever made it fail, carries a start time, an
\* end time not earlier than it, and a request id in its metadata; the
\* request ids of the two invocations differ.
C21_TimesAndRequestId ==
    /\ \A c \in Invocations :
         invocations[c].pc = "done" =>
           /\ invocations[c].start_time >= 0
           /\ invocations[c].end_time >= invocations[c].start_time
           /\ invocations[c].metadata.request_id # None
    /\ ( \A c \in Invocations : invocations[c].pc # "idle" ) =>
         invocations[1].metadata.request_id # invocations[2].metadata.request_id

C21_Witness ==
    /\ \A c \in Invocations : invocations[c].pc = "done"
    /\ one_runner
    /\ managers = <<>>
    /\ invocations[1].end_time > invocations[1].start_time
    /\ invocations[2].start_time > invocations[1].start_time

\* what the CSS declarations of a style text are, white space and ";" aside
Declarations(style) == SelectSeq(style, LAMBDA piece : piece \notin {" ", ";"})

\* the element carries display:none, visibility:hidden or opacity:0 inline,
\* the hidden attribute, or aria-hidden="true"
CarriesHidingMark(element) ==
    \/ \E d \in { <<"display", ":", "none">>, <<"visibility", ":", "hidden">>, <<"opacity", ":", "0">> } :
         Contains(Declarations(Get(element, "style", <<>>)), d)
    \/ "hidden" \in DOMAIN element.attrs
    \/ Get(element, "aria-hidden", "") = "true"

\* C22: is_visible reports an element invisible whenever the element itself
\* or one of its ancestors carries an inline style display:none,
\* visibility:hidden or opacity:0, the hidden attribute, or aria-hidden="true".
C22_HidingMarkMeansInvisible ==
    applied.fn = "is_visible" =>
      ( ( \E p \in Parents(applied.arg.path) \cup {applied.arg.path} :
            CarriesHidingMark(NodeAt(applied.arg.body, p)) )
        => ~applied.visible )

\* the text of the element's own string children, without its descendants'
DirectOwnText(element) ==
    LET F[i \in 0..Len(element.contents)] ==
            IF i = 0 THEN ""
            ELSE IF IsTag(element.contents[i]) THEN F[i - 1]
            ELSE F[i - 1] \o StripText(element.contents[i].text)
    IN F[Len(element.contents)]

\* the name the precedence gives an element, for a given reading of "the
\* element's own text"
NameByPrecedence(element, own_text) ==
    LET aria_label == StripText(Get(element, "aria-label", ""))
        role == TagToRole(element.name, element)
    IN
    CASE aria_label # "" -> aria_label
      [] aria_label = "" /\ own_text # "" /\ role # "generic" -> own_text
      [] aria_label = "" /\ ~(own_text # "" /\ role # "generic")
           /\ role = "generic" /\ ChildElements(element) = {} /\ GetText(element) # "" -> GetText(element)
      [] OTHER -> NameOfTag(element)

\* the node of an element with an aria-label is named by the aria-label
AriaLabelKept ==
    ( /\ applied.fn = "element_to_json"
      /\ applied.node # NoNode
      /\ StripText(Get(NodeAt(applied.arg.body, applied.arg.path), "aria-label", "")) # "" )
    => applied.node["name"] = StripText(NodeAt(applied.arg.body, applied.arg.path).attrs["aria-label"])

\* C23 as stated: the name is the aria-label; otherwise the element's direct
\* own text (the text of its own string children) when its role is not
\* generic; otherwise the full text of a generic element without child
\* elements; otherwise what the tag's rule gives; otherwise the empty string.
\* The text-node override never replaces a name taken from aria-label.
C23_NamePrecedence_DirectText ==
    /\ applied.fn = "get_name" =>
         applied.name = NameByPrecedence(NodeAt(applied.arg.body, applied.arg.path),
                                          DirectOwnText(NodeAt(applied.arg.body, applied.arg.path)))
    /\ AriaLabelKept

ChildrenOf(node) == IF "children" \in DOMAIN node THEN node["children"] ELSE <<>>

\* the positions of the child elements of the body that is_visible reports
\* visible and that have a role
VisibleChildren(body) ==
    SelectSeq(ChildPositions(body),
              LAMBDA i : IsVisible(body, <<i>>) /\ TagToRole(body.contents[i].name, body.contents[i]) # None)

\* C25: the tree summarize_html returns has, as the children of its root,
\* exactly the nodes of the child elements of the body that is_visible
\* reports visible, in document order: an element reported invisible has no
\* node.
C25_InvisibleElementsOmitted ==
    applied.fn = "summarize_html" =>
      /\ Len(ChildrenOf(applied.node)) = Len(VisibleChildren(applied.arg.body))
      /\ \A j \in 1..Len(ChildrenOf(applied.node)) :
           ChildrenOf(applied.node)[j] = ElementToJson(applied.arg.body, <<VisibleChildren(applied.arg.body)[j]>>)

\* the actions that enter a value
InputClassActions == {"input", "type", "fill"}

\* the object has the fields of a step and keeps the rule of the value
WellFormedStep(object) ==
    /\ {"gherkin", "action", "target"} \subseteq DOMAIN object
    /\ object["action"] # ""
    /\ object["target"] # ""
    /\ ValueOf(object) # None => object["action"] \in InputClassActions

\* C26: every step that generate_steps returns has a non-empty action and a
\* non-empty target, and has a value only when its action enters a value; a
\* response with a step that breaks this is rejected with an exception.
C26_StepsAreWellFormed ==
    applied.fn = "generate_steps" =>
      /\ \A i \in 1..Len(applied.result.value) :
           /\ applied.result.value[i].action # ""
           /\ applied.result.value[i].target # ""
           /\ applied.result.value[i].value # None
                => applied.result.value[i].action \in InputClassActions
      /\ ( \E i \in 1..Len(applied.arg.steps_data) : ~WellFormedStep(applied.arg.steps_data[i]) )
           => applied.result.raised # NoExc

\* the cleaned instruction is a permitted call followed by further text
CallAndMore(instruction) ==
    \E n \in 1..(Len(Clean(instruction)) - 1) :
       /\ TextOf(SubSeq(Clean(instruction), 1, n)) \in AllowedActions
       /\ TextOf(Clean(instruction)) \notin AllowedActions

\* C27: a command that is a permitted call followed by further text is
\* rejected by the allow-list gate and is not evaluated.
C27_WholeStringMatch ==
    ( applied.fn = "execute_step" /\ CallAndMore(applied.arg.instruction) )
      => /\ ~applied.executed.evaluated
         /\ ~applied.executed.result.success
         /\ applied.executed.result.error_message = "Instruction not allowed"

\* C28: execute_step returns success=true for a navigation command only if,
\* after the navigation and the readiness waits, no readiness wait has failed
\* and the URL of the page is neither empty nor about:blank.
C28_NavigationVerifiesUrl ==
    ( /\ applied.fn = "execute_step"
      /\ applied.executed.branch = "goto"
      /\ applied.executed.result.success )
      => /\ ~applied.arg.navigation.wait_raises
         /\ applied.arg.navigation.current_url \notin {"", "about:blank"}

\* the names the context of a command is said to expose
ContextNames == {"page", "locator", "keyboard", "expect"}

\* C30: every command that the allow-list admits and that is evaluated
\* resolves its names (no NameError, no AttributeError), and evaluating it
\* reaches no name of the host outside the page handle, the locator factory,
\* the keyboard handle and the assertion helper.
C30_RestrictedContext ==
    ( /\ applied.fn = "execute_step"
      /\ applied.executed.branch = "eval" )
      => /\ applied.executed.outcome \notin {"NameError", "AttributeError"}
         /\ applied.executed.reached \subseteq ContextNames

\* C29: the navigation is taken as successful only when the load-state
\* command of that attempt succeeded too, there are never more than 3
\* attempts, and no attempt follows a successful one.
C29_ReadinessDecidesAttempt ==
    /\ goto_calls <= max_retries
    /\ ( navigation_success /\ pc = "step_loop" /\ idx = 0 /\ wait_result # NoResult )
         => wait_result.success

\* the call an instruction makes: the attribute of the page that its text,
\* once cleaned, begins with
CallOf(instruction) == Head(Clean(instruction)).attr

\* C31: a command that the allow-list admits and whose call is not goto is
\* not dispatched as a navigation: page.goto is not called for it.
C31_GotoOnlyForNavigation ==
    ( /\ applied.fn = "execute_step"
      /\ IsInstructionTextAllowed(applied.arg.instruction)
      /\ CallOf(applied.arg.instruction) # "goto" )
      => /\ applied.executed.branch # "goto"
         /\ applied.executed.goto_url = None

\* C32: the first string argument of the call that execute_step makes for an
\* admitted command, page.goto or the evaluated call, is the first string
\* argument of the command as it was given.
C32_ArgumentsUnchanged ==
    ( /\ applied.fn = "execute_step"
      /\ applied.executed.branch \in {"goto", "eval"} )
      => applied.executed.argument = FirstString(applied.arg.instruction)

\* C33: when the page content of a step cannot be retrieved (get_page_content
\* raises or returns an empty page), nothing more is done for the step:
\* neither the instruction generator nor a command is invoked, a failed
\* result for that step is appended to steps_results, and no exception is
\* raised into the case: the case's error is the step's error.
C33_SnapshotFailureFailsStep ==
    \A j \in 1..Len(events) :
      ( events[j].ev = "snapshot" /\ ~events[j].ok ) =>
        /\ j = Len(events)
        /\ \A h \in 1..Len(events) :
             events[h].step = events[j].step => events[h].ev \notin {"generate", "execute"}
        /\ Len(steps_results) = Cardinality(Snapshots)
        /\ Last(steps_results).gherkin_step = gherkin_steps[events[j].step + 1]
        /\ ~Last(steps_results).execution_result.success
        /\ Last(steps_results).execution_result.error_message
             \in {"Failed to get page content: Target closed", "Empty page snapshot received"}
        /\ case_error = "none"
        /\ ~propagated
        /\ error_message = Last(steps_results).execution_result.error_message

C33_Witness ==
    /\ pc = "done"
    /\ Len(steps_results) = 2
    /\ steps_results[1].execution_result.success
    /\ events # <<>>
    /\ Last(events).ev = "snapshot"
    /\ Last(steps_results).execution_result.error_message = "Empty page snapshot received"

\* positions of the events of step i at which execute_step returned a result
Returns(i) == {j \in Executions(events, i) : events[j].result # NoResult}

\* C34: in every step result, playwright_instruction is null exactly when
\* no execute_step call of the step returned a result, and otherwise it is
\* the command of the step's last such call and execution_result is the
\* result that this call returned.
C34_InstructionAndItsResult ==
    \A r \in 1..Len(steps_results) :
      LET returns == Returns(PositionOf(r)) IN
      /\ steps_results[r].playwright_instruction = None <=> returns = {}
      /\ steps_results[r].playwright_instruction # None =>
           \E j \in returns :
             /\ \A h \in returns : h <= j
             /\ events[j].cmd = steps_results[r].playwright_instruction
             /\ events[j].result = steps_results[r].execution_result

C34_Witness ==
    /\ pc = "done"
    /\ Len(steps_results) = 2
    /\ steps_results[1].playwright_instruction = "click('#login')"
    /\ steps_results[1].execution_result.success
    /\ steps_results[2].playwright_instruction = "click('text=Login')"
    /\ ~steps_results[2].execution_result.success
    /\ Last(events).tier = "low"
    /\ Last(events).result = steps_results[2].execution_result

C36_FailedStartTearsDown ==
    ( returned.op = "start" /\ returned.raised # NoExc ) =>
      /\ returned.raised.type = "BrowserException"
      /\ manager.open = {}
      /\ manager.handles = Handles(FALSE, FALSE, FALSE, FALSE)

\* error_message is present exactly in a failed result
ErrorIffFailure(result) == result.error_message # None <=> ~result.success

\* C37: every ExecutionResult of the case, those that execute_step returned
\* for the navigation and for the commands and those that
\* _execute_single_step built itself, has an error_message exactly when its
\* success is false.
C37_ErrorMessageIffFailure ==
    /\ \A r \in 1..Len(steps_results) : ErrorIffFailure(steps_results[r].execution_result)
    /\ \A j \in 1..Len(events) :
         events[j].result # NoResult => ErrorIffFailure(events[j].result)
    /\ wait_result # NoResult => ErrorIffFailure(wait_result)
    /\ execution_result # NoResult => ErrorIffFailure(execution_result)

C37_Witness ==
    /\ pc = "done"
    /\ Len(steps_results) = 2
    /\ steps_results[1].execution_result.success
    /\ steps_results[1].execution_result.error_message = None
    /\ ~steps_results[2].execution_result.success
    /\ steps_results[2].execution_result.error_message = "Timeout exceeded"
    /\ steps_results[2].playwright_instruction = "click('#submit')"

\* the screenshots taken by the two invocations, each as the invocation and
\* the position among its screenshots
Captures == { <<c, i>> : c \in Invocations, i \in 1..MaxShots }

\* C38: any two screenshots of the invocations are written to different
\* paths, and no two invocations write their snapshot to the same path.
C38_ArtifactsDoNotCollide ==
    /\ \A x, y \in Captures :
         ( /\ x # y
           /\ x[2] <= Len(invocations[x[1]].screenshots)
           /\ y[2] <= Len(invocations[y[1]].screenshots) )
           => invocations[x[1]].screenshots[x[2]] # invocations[y[1]].screenshots[y[2]]
    /\ \A c, d \in Invocations :
         c # d => invocations[c].snapshots \cap invocations[d].snapshots = {}


\* an inline style with a declaration display:none, visibility:hidden or
\* opacity:0, however it is spaced
HasHidingStyle(element) ==
    \E d \in { <<"display", ":", "none">>, <<"visibility", ":", "hidden">>, <<"opacity", ":", "0">> } :
      Contains(Declarations(Get(element, "style", <<>>)), d)

\* what is_visible reports for a node standing alone in a body, outside of
\* the element that holds it
VisibleOnItsOwn(node) == IsVisible(El("body", <<>>, <<node>>), <<1>>)

\* C39: a non-interactive element whose own inline style is a hiding style
\* and which has a child element that is visible on its own is reported
\* visible by is_visible.
C39_HiddenParentOfVisibleChild ==
    LET element == NodeAt(applied.arg.body, applied.arg.path) IN
    ( /\ applied.fn = "is_visible"
      /\ IsTag(element)
      /\ element.name \notin InteractiveTags
      /\ Get(element, "role", None) \notin InteractiveRoles
      /\ HasHidingStyle(element)
      /\ \E i \in ChildElements(element) : VisibleOnItsOwn(element.contents[i]) )
      => applied.visible

\* C40: every wait made for a command (the navigation, the readiness waits
\* after it, the wait for network idle after an action) runs with the timeout
\* of the session's BrowserConfig, with or without a headless argument.
C40_WaitsUseConfiguredTimeout ==
    applied.fn = "execute_step" =>
      \A i \in 1..Len(applied.executed.waits) :
        applied.executed.waits[i].timeout = applied.arg.browser_config.timeout


====
